---------------------------- MODULE Spec2Model ----------------------------
(***************************************************************************)
(* Sanctions screening core: name preprocessing, matching, risk scoring,   *)
(* false-positive filtering and the business-rule decision engine.         *)
(*                                                                         *)
(* Text is a sequence of one-character strings.  Scores are fixed-point    *)
(* integers in thousandths of a point (100.0 is 100000).                   *)
(***************************************************************************)
EXTENDS Integers, Sequences, FiniteSets, TLC

VARIABLES
    pc,                \* "start", "idle", "screened", "flagged" or "raised"
    query,             \* the name being screened
    sanctions_df,      \* the processed candidate rows
    similarity,        \* what the similarity library returns for each row
    screening_result,  \* the dictionary screen_name returned
    rules_result,      \* the dictionary apply_rules returned
    flagged_result,    \* the dictionary process_screening_result returned
    discarded,         \* the match dictionaries the filters dropped
    names,             \* the names of the batch request being served
    results,           \* the responses the batch loop has appended
    returned_matches,  \* the match lists screen_name returned, as returned
    seen,              \* the candidate lists the request in flight has read
    load_status,       \* how the last load of the sanctions data ended
    data_is_none       \* whether the global sanctions_data is still None

vars == <<pc, query, sanctions_df, similarity, screening_result,
          rules_result, flagged_result, discarded, names, results,
          returned_matches, seen, load_status, data_is_none>>

\* what only the requests of the running server write
server_vars == <<returned_matches, seen, load_status, data_is_none>>

(***************************************************************************)
(* Python built-ins on str, list and dict                                  *)
(***************************************************************************)

Max2(a, b) == IF a >= b THEN a ELSE b

Min2(a, b) == IF a <= b THEN a ELSE b

\* dict.get(k, d)
Get(r, k, d) == IF k \in DOMAIN r THEN r[k] ELSE d

\* the empty dictionary {}
EmptyDict == <<>>

UpperChars == <<"A", "B", "C", "D", "E", "F", "G", "H", "I", "J", "K", "L", "M", "N", "O", "P", "Q", "R", "S", "T", "U", "V", "W", "X", "Y", "Z">>

LowerChars == <<"a", "b", "c", "d", "e", "f", "g", "h", "i", "j", "k", "l", "m", "n", "o", "p", "q", "r", "s", "t", "u", "v", "w", "x", "y", "z">>

DigitChars == <<"0", "1", "2", "3", "4", "5", "6", "7", "8", "9">>

\* str.isspace() for one character
IsSpace(c) == c \in {" ", "\t", "\n"}

\* the characters the regex class \w accepts ("eacute" stands for an
\* accented letter)
WordChars ==
    {UpperChars[i] : i \in 1..26} \cup {LowerChars[i] : i \in 1..26}
    \cup {DigitChars[i] : i \in 1..10} \cup {"_", "eacute"}

IsWordChar(c) == c \in WordChars

\* str.lower() for one character
LowerMap ==
    [c \in {UpperChars[i] : i \in 1..26} |->
        LowerChars[CHOOSE i \in 1..26 : c = UpperChars[i]]]

LowerChar(c) == IF c \in DOMAIN LowerMap THEN LowerMap[c] ELSE c

\* str.lower()
Lower(s) == <<>> \o [i \in 1..Len(s) |-> LowerChar(s[i])]

\* str.strip()
Strip(s) ==
    LET keep == {i \in 1..Len(s) : ~IsSpace(s[i])}
    IN  IF keep = {} THEN <<>>
        ELSE LET lo == CHOOSE i \in keep : \A j \in keep : i <= j
                 hi == CHOOSE i \in keep : \A j \in keep : i >= j
             IN  SubSeq(s, lo, hi)

\* str.split() on runs of whitespace; never yields an empty word
Split(s) ==
    LET RECURSIVE F(_, _, _)
        F(i, cur, acc) ==
            IF i > Len(s)
            THEN IF cur = <<>> THEN acc ELSE Append(acc, cur)
            ELSE IF IsSpace(s[i])
                 THEN F(i + 1, <<>>, IF cur = <<>> THEN acc ELSE Append(acc, cur))
                 ELSE F(i + 1, Append(cur, s[i]), acc)
    IN  F(1, <<>>, <<>>)

\* str.split(sep) on one separator character; keeps empty pieces
SplitOn(s, sep) ==
    LET RECURSIVE F(_, _, _)
        F(i, cur, acc) ==
            IF i > Len(s) THEN Append(acc, cur)
            ELSE IF s[i] = sep
                 THEN F(i + 1, <<>>, Append(acc, cur))
                 ELSE F(i + 1, Append(cur, s[i]), acc)
    IN  F(1, <<>>, <<>>)

\* sep.join(words)
RECURSIVE Join(_, _)
Join(words, sep) ==
    IF words = <<>> THEN <<>>
    ELSE IF Len(words) = 1 THEN words[1]
    ELSE words[1] \o sep \o Join(Tail(words), sep)

\* needle in hay, for strings
Contains(hay, needle) ==
    \E i \in 0..(Len(hay) - Len(needle)) :
        \A k \in 1..Len(needle) : hay[i + k] = needle[k]

\* [x for x in xs if P(x)]
SelectWords(xs, P(_)) == SelectSeq(xs, P)

\* set(xs)
ToSet(xs) == {xs[i] : i \in 1..Len(xs)}

(***************************************************************************)
(* preprocessing/cleaner.py                                                *)
(***************************************************************************)

\* string.punctuation without the apostrophe (the backtick is spelled out)
Punctuation ==
    {"!", "\"", "#", "$", "%", "&", "(", ")", "*", "+", ",", "-", ".", "/",
     ":", ";", "<", "=", ">", "?", "@", "[", "\\", "]", "^", "_", "backtick", "{",
     "|", "}", "~"}

\* re.sub(r'\s+', ' ', text)
CollapseWhitespace(s) ==
    LET RECURSIVE F(_, _)
        F(i, acc) ==
            IF i > Len(s) THEN acc
            ELSE IF IsSpace(s[i])
                 THEN IF i > 1 /\ IsSpace(s[i - 1]) THEN F(i + 1, acc)
                      ELSE F(i + 1, Append(acc, " "))
                 ELSE F(i + 1, Append(acc, s[i]))
    IN  F(1, <<>>)

\* TextCleaner.clean
clean(text) ==
    IF text = <<>> THEN <<>>
    ELSE LET lowered   == Lower(text)
             collapsed == CollapseWhitespace(lowered)
             stripped  == SelectSeq(collapsed, LAMBDA c : c \notin Punctuation)
         IN  Strip(stripped)

titles ==
    {<<"m", "r">>, <<"m", "r", "s">>, <<"m", "s">>, <<"m", "i", "s", "s">>, <<"d", "r">>, <<"p", "r", "o", "f">>, <<"s", "i", "r">>, <<"l", "a", "d", "y">>,
     <<"l", "o", "r", "d">>, <<"s", "h", "e", "i", "k", "h">>, <<"i", "m", "a", "m">>, <<"m", "u", "l", "l", "a", "h">>, <<"a", "y", "a", "t", "o", "l", "l", "a", "h">>}

\* TextCleaner.remove_titles
remove_titles(text) ==
    Join(SelectSeq(Split(text), LAMBDA w : w \notin titles), <<" ">>)

stop_words ==
    {<<"a", "n", "d">>, <<"o", "r">>, <<"t", "h", "e">>, <<"o", "f">>, <<"b", "i", "n">>, <<"i", "b", "n">>, <<"a", "b", "u">>, <<"a", "l">>}

\* TextCleaner.remove_common_words
remove_common_words(text) ==
    Join(SelectSeq(Split(text), LAMBDA w : w \notin stop_words), <<" ">>)

(***************************************************************************)
(* preprocessing/normalizer.py                                             *)
(***************************************************************************)

\* NameNormalizer.transliterate: unidecode maps an accented letter to its
\* base letter and leaves ASCII alone
transliterate(text) ==
    <<>> \o [i \in 1..Len(text) |-> IF text[i] = "eacute" THEN "e" ELSE text[i]]

\* NameNormalizer.replacements, flattened in dictionary order to
\* <<variant, standard>> pairs
replacements ==
    << <<<<"m", "u", "h", "a", "m", "m", "a", "d">>, <<"m", "o", "h", "a", "m", "m", "e", "d">>>>, <<<<"m", "o", "h", "a", "m", "e", "d">>, <<"m", "o", "h", "a", "m", "m", "e", "d">>>>,
       <<<<"m", "o", "h", "a", "m", "m", "a", "d">>, <<"m", "o", "h", "a", "m", "m", "e", "d">>>>,
       <<<<"a", "b", "d">>, <<"a", "b", "d", "u", "l">>>>, <<<<"a", "b", "d", "e", "l">>, <<"a", "b", "d", "u", "l">>>>, <<<<"a", "b", "d", "a", "l">>, <<"a", "b", "d", "u", "l">>>>,
       <<<<"e", "l">>, <<"a", "l">>>>, <<<<"u", "l">>, <<"a", "l">>>>,
       <<<<"b", "i", "n">>, <<"i", "b", "n">>>>, <<<<"b", "e", "n">>, <<"i", "b", "n">>>> >>

\* the maximal runs of word and non-word characters of a text, in order
WordRuns(s) ==
    LET RECURSIVE F(_, _, _)
        F(i, cur, acc) ==
            IF i > Len(s)
            THEN IF cur = <<>> THEN acc ELSE Append(acc, cur)
            ELSE IF cur = <<>> \/ IsWordChar(s[i]) = IsWordChar(cur[1])
                 THEN F(i + 1, Append(cur, s[i]), acc)
                 ELSE F(i + 1, <<s[i]>>, Append(acc, cur))
    IN  F(1, <<>>, <<>>)

\* re.sub(rf'\b{variant}\b', standard, text): the variant is all word
\* characters, so it matches exactly the maximal word runs equal to it
ReplaceWord(text, variant, standard) ==
    LET Substitute(runs) ==
            Join([i \in 1..Len(runs) |->
                     IF runs[i] = variant THEN standard ELSE runs[i]], <<>>)
    IN  Substitute(WordRuns(text))

\* re.sub(r'\bal[\s\-]', 'al ', text)
ReplaceAlPrefix(s) ==
    LET RECURSIVE F(_, _)
        F(i, acc) ==
            IF i > Len(s) THEN acc
            ELSE IF /\ i + 2 <= Len(s)
                    /\ s[i] = "a" /\ s[i + 1] = "l"
                    /\ (IsSpace(s[i + 2]) \/ s[i + 2] = "-")
                    /\ (i = 1 \/ ~IsWordChar(s[i - 1]))
                 THEN F(i + 3, acc \o <<"a", "l", " ">>)
                 ELSE F(i + 1, Append(acc, s[i]))
    IN  F(1, <<>>)

\* NameNormalizer.normalize_arabic_names
normalize_arabic_names(text) ==
    LET RECURSIVE F(_, _)
        F(k, t) ==
            IF k > Len(replacements) THEN t
            ELSE F(k + 1, ReplaceWord(t, replacements[k][1], replacements[k][2]))
    IN  F(1, ReplaceAlPrefix(text))

\* re.sub(r'\s*X\s*', X, text) for one character X
TightenAround(s, x) ==
    LET RECURSIVE SkipSpace(_)
        SkipSpace(i) ==
            IF i <= Len(s) /\ IsSpace(s[i]) THEN SkipSpace(i + 1) ELSE i
        RECURSIVE F(_, _)
        F(i, acc) ==
            IF i > Len(s) THEN acc
            ELSE LET j == SkipSpace(i)
                 IN  IF j <= Len(s) /\ s[j] = x
                     THEN F(SkipSpace(j + 1), Append(acc, x))
                     ELSE F(i + 1, Append(acc, s[i]))
    IN  F(1, <<>>)

\* NameNormalizer.normalize_spacing
normalize_spacing(text) == TightenAround(TightenAround(text, "-"), "'")

\* NameNormalizer.normalize
normalize(text) ==
    IF text = <<>> THEN <<>>
    ELSE normalize_spacing(normalize_arabic_names(transliterate(text)))

(***************************************************************************)
(* preprocessing/tokenizer.py                                              *)
(***************************************************************************)

min_token_length == 2

\* NameTokenizer.tokenize
tokenize(text) ==
    IF text = <<>> THEN <<>>
    ELSE LET parts == Split(text)
             RECURSIVE F(_, _)
             F(i, acc) ==
                 IF i > Len(parts) THEN acc
                 ELSE F(i + 1, acc \o SplitOn(parts[i], "-"))
         IN  SelectSeq(F(1, <<>>), LAMBDA t : Len(t) >= min_token_length)

\* NameTokenizer.generate_ngrams
generate_ngrams(tokens, n) ==
    IF Len(tokens) < n THEN tokens
    ELSE [i \in 1..(Len(tokens) - n + 1) |->
             Join(SubSeq(tokens, i, i + n - 1), <<" ">>)]

\* NameTokenizer.get_all_variants
get_all_variants(text) ==
    LET Variants(tokens) ==
            (({text} \cup ToSet(tokens))
             \cup (IF Len(tokens) > 1 THEN ToSet(generate_ngrams(tokens, 2)) ELSE {}))
            \ {<<>>}
    IN  Variants(tokenize(text))

(***************************************************************************)
(* preprocessing/processor.py                                              *)
(***************************************************************************)

\* NameProcessor.process_single
process_single(name) ==
    IF name = <<>>
    THEN [original |-> <<>>, cleaned |-> <<>>, normalized |-> <<>>,
          tokens |-> <<>>, variants |-> {}]
    ELSE LET Processed(cleaned, normalized) ==
                 [original |-> name, cleaned |-> cleaned,
                  normalized |-> normalized, tokens |-> tokenize(normalized),
                  variants |-> get_all_variants(normalized)]
             Normalized(cleaned) == Processed(cleaned, normalize(cleaned))
         IN  Normalized(remove_common_words(remove_titles(clean(name))))

(***************************************************************************)
(* config/thresholds.py                                                    *)
(***************************************************************************)

\* n points of score in the fixed-point unit (thousandths)
Pts(n) == n * 1000

EXACT_MATCH_THRESHOLD == 100

HIGH_RISK_THRESHOLD == 85

MEDIUM_RISK_THRESHOLD == 70

LOW_RISK_THRESHOLD == 60

MIN_NAME_LENGTH == 3

REQUIRE_MANUAL_REVIEW_ABOVE == HIGH_RISK_THRESHOLD

AUTO_CLEAR_BELOW == LOW_RISK_THRESHOLD

\* LIST_PRIORITIES.get(source, default)
LIST_PRIORITIES(source, default) ==
    CASE source = "OFAC" -> 100
      [] source = "UN"   -> 90
      [] source = "HMT"  -> 80
      [] source = "EU"   -> 70
      [] OTHER           -> default

(***************************************************************************)
(* matching/similarity.py                                                  *)
(***************************************************************************)

\* length of a longest common subsequence of a and b.  Row i holds the
\* LCS lengths of a[1..i] against every prefix of b:
\*   L[i][j] = max(L[i-1][j], max{L[i-1][k-1] + 1 : k <= j, b[k] = a[i]})
LCSLen(a, b) ==
    LET m == Len(b)
        NextRow(i, prev) ==
            [j \in 1..m |->
                LET cands == {prev[j]} \cup
                             {(IF k = 1 THEN 0 ELSE prev[k - 1]) + 1 :
                                 k \in {k \in 1..j : b[k] = a[i]}}
                IN  CHOOSE v \in cands : \A w \in cands : v >= w]
        RECURSIVE Row(_, _)
        Row(i, prev) ==
            IF i > Len(a) THEN prev
            ELSE Row(i + 1, SubSeq(NextRow(i, prev), 1, m))
        last == Row(1, [j \in 1..m |-> 0])
    IN  IF m = 0 THEN 0 ELSE last[m]

\* rapidfuzz fuzz.ratio: the normalized indel similarity,
\* 100 * 2 * LCS / (len1 + len2)
fuzz_ratio(a, b) ==
    IF Len(a) + Len(b) = 0 THEN Pts(100)
    ELSE (Pts(200) * LCSLen(a, b)) \div (Len(a) + Len(b))

\* SimilarityCalculator.levenshtein_ratio
levenshtein_ratio(str1, str2) ==
    IF str1 = <<>> \/ str2 = <<>> THEN 0 ELSE fuzz_ratio(str1, str2)

\* SimilarityCalculator.partial_ratio; lib is what the library returns
partial_ratio(str1, str2, lib) ==
    IF str1 = <<>> \/ str2 = <<>> THEN 0 ELSE lib.partial

\* SimilarityCalculator.token_sort_ratio
token_sort_ratio(str1, str2, lib) ==
    IF str1 = <<>> \/ str2 = <<>> THEN 0 ELSE lib.token_sort

\* SimilarityCalculator.token_set_ratio
token_set_ratio(str1, str2, lib) ==
    IF str1 = <<>> \/ str2 = <<>> THEN 0 ELSE lib.token_set

\* SimilarityCalculator.weighted_average, weights 0.3 / 0.2 / 0.3 / 0.2
weighted_average(str1, str2, lib) ==
    LET Weighted(scores) ==
            [score   |-> (3 * scores.levenshtein + 2 * scores.partial
                          + 3 * scores.token_sort + 2 * scores.token_set) \div 10,
             details |-> scores]
    IN  Weighted([levenshtein |-> levenshtein_ratio(str1, str2),
                  partial     |-> partial_ratio(str1, str2, lib),
                  token_sort  |-> token_sort_ratio(str1, str2, lib),
                  token_set   |-> token_set_ratio(str1, str2, lib)])

(***************************************************************************)
(* matching/matchers.py                                                    *)
(***************************************************************************)

\* ExactMatcher.match
ExactMatcher_match(q, target) ==
    LET Result(is_match) ==
            [match_type |-> "exact",
             score      |-> IF is_match THEN Pts(100) ELSE 0,
             is_match   |-> is_match,
             details    |-> [exact_match |-> is_match]]
    IN  Result(Strip(Lower(q)) = Strip(Lower(target)))

\* FuzzyMatcher.match
FuzzyMatcher_match(q, target, lib) ==
    LET Result(score, details) ==
            [match_type  |-> "fuzzy",
             score       |-> score,
             match_level |-> IF score >= Pts(HIGH_RISK_THRESHOLD) THEN "high"
                             ELSE IF score >= Pts(MEDIUM_RISK_THRESHOLD) THEN "medium"
                             ELSE IF score >= Pts(LOW_RISK_THRESHOLD) THEN "low"
                             ELSE "none",
             is_match    |-> score >= Pts(LOW_RISK_THRESHOLD),
             details     |-> details]
        Unpack(wa) == Result(wa.score, wa.details)
    IN  Unpack(weighted_average(q, target, lib))

\* the inner loop of TokenMatcher.match: the first target token with the
\* strictly highest ratio, or no token when every ratio is 0
BestTokenMatch(q_token, target_tokens) ==
    LET RECURSIVE F(_, _, _)
        Better(i, best_score, best_token, token_score) ==
            IF token_score > best_score
            THEN F(i + 1, token_score, target_tokens[i])
            ELSE F(i + 1, best_score, best_token)
        F(i, best_score, best_token) ==
            IF i > Len(target_tokens)
            THEN [score |-> best_score, token |-> best_token]
            ELSE Better(i, best_score, best_token,
                        levenshtein_ratio(q_token, target_tokens[i]))
    IN  F(1, 0, <<>>)

\* TokenMatcher.match averaging over the accepted pairings only
TokenMatcher_match_accepted_average(query_tokens, target_tokens) ==
    IF query_tokens = <<>> \/ target_tokens = <<>>
    THEN [match_type |-> "token", score |-> 0, is_match |-> FALSE,
          details |-> [matched_tokens |-> <<>>]]
    ELSE LET RECURSIVE F(_, _, _)
             Accept(i, matched, total, best) ==
                 IF best.score >= Pts(LOW_RISK_THRESHOLD)
                 THEN F(i + 1,
                        Append(matched, [query  |-> query_tokens[i],
                                         target |-> best.token,
                                         score  |-> best.score]),
                        total + best.score)
                 ELSE F(i + 1, matched, total)
             F(i, matched, total) ==
                 IF i > Len(query_tokens)
                 THEN [matched |-> matched, total |-> total]
                 ELSE Accept(i, matched, total,
                             BestTokenMatch(query_tokens[i], target_tokens))
             Result(matched_tokens, avg_score) ==
                 [match_type |-> "token",
                  score      |-> avg_score,
                  is_match   |-> avg_score >= Pts(LOW_RISK_THRESHOLD),
                  details    |-> [matched_tokens |-> matched_tokens,
                                  match_ratio    |->
                                      (1000 * Len(matched_tokens))
                                          \div Len(query_tokens)]]
             Average(acc) ==
                 Result(acc.matched,
                        IF acc.matched = <<>> THEN 0
                        ELSE acc.total \div Len(acc.matched))
         IN  Average(F(1, <<>>, 0))

\* TokenMatcher.match; match_ratio is kept in thousandths
TokenMatcher_match(query_tokens, target_tokens) ==
    IF query_tokens = <<>> \/ target_tokens = <<>>
    THEN [match_type |-> "token", score |-> 0, is_match |-> FALSE,
          details |-> [matched_tokens |-> <<>>]]
    ELSE LET RECURSIVE F(_, _, _)
             Accept(i, matched, total, best) ==
                 IF best.score >= Pts(LOW_RISK_THRESHOLD)
                 THEN F(i + 1,
                        Append(matched, [query  |-> query_tokens[i],
                                         target |-> best.token,
                                         score  |-> best.score]),
                        total + best.score)
                 ELSE F(i + 1, matched, total)
             F(i, matched, total) ==
                 IF i > Len(query_tokens)
                 THEN [matched |-> matched, total |-> total]
                 ELSE Accept(i, matched, total,
                             BestTokenMatch(query_tokens[i], target_tokens))
             Result(matched_tokens, avg_score) ==
                 [match_type |-> "token",
                  score      |-> avg_score,
                  is_match   |-> avg_score >= Pts(LOW_RISK_THRESHOLD),
                  details    |-> [matched_tokens |-> matched_tokens,
                                  match_ratio    |->
                                      (1000 * Len(matched_tokens))
                                          \div Len(query_tokens)]]
             Average(acc) == Result(acc.matched, acc.total \div Len(query_tokens))
         IN  Average(F(1, <<>>, 0))

(***************************************************************************)
(* matching/scorer.py                                                      *)
(***************************************************************************)

\* a risk score that is not capped
calculate_risk_score_uncapped(match_result, list_source) ==
    LET base_score    == Get(match_result, "score", 0)
        list_priority == LIST_PRIORITIES(list_source, 50)
        boost         == IF Get(match_result, "match_type", "") = "exact"
                         THEN 12 ELSE 10
    IN  (base_score * list_priority * boost) \div 1000

\* MatchScorer.calculate_risk_score: score * (priority / 100) * 1.2 for an
\* exact match, capped at 100
calculate_risk_score(match_result, list_source) ==
    LET base_score    == Get(match_result, "score", 0)
        list_priority == LIST_PRIORITIES(list_source, 50)
        boost         == IF Get(match_result, "match_type", "") = "exact"
                         THEN 12 ELSE 10
    IN  Min2((base_score * list_priority * boost) \div 1000, Pts(100))

\* MatchScorer.determine_risk_level
determine_risk_level(score) ==
    IF score >= Pts(HIGH_RISK_THRESHOLD) THEN "HIGH"
    ELSE IF score >= Pts(MEDIUM_RISK_THRESHOLD) THEN "MEDIUM"
    ELSE IF score >= Pts(LOW_RISK_THRESHOLD) THEN "LOW"
    ELSE "NONE"

\* a review test that leaves out the threshold itself
requires_review_above(score) == score > Pts(REQUIRE_MANUAL_REVIEW_ABOVE)

\* a review test that starts at the medium threshold
requires_review_medium(score) == score >= Pts(MEDIUM_RISK_THRESHOLD)

\* MatchScorer.requires_review
requires_review(score) == score >= Pts(REQUIRE_MANUAL_REVIEW_ABOVE)

\* a clearing test that includes the threshold itself
should_auto_clear_at(score) == score <= Pts(AUTO_CLEAR_BELOW)

\* MatchScorer.should_auto_clear
should_auto_clear(score) == score < Pts(AUTO_CLEAR_BELOW)

\* sort_key of MatchScorer.rank_matches
sort_key(match) ==
    <<Get(match, "risk_score", 0),
      LIST_PRIORITIES(Get(match, "source", ""), 0),
      Get(match, "score", 0)>>

\* tuple comparison k1 > k2
KeyGreater(k1, k2) ==
    \/ k1[1] > k2[1]
    \/ k1[1] = k2[1] /\ k1[2] > k2[2]
    \/ k1[1] = k2[1] /\ k1[2] = k2[2] /\ k1[3] > k2[3]

\* a ranking that sorts in ascending order and reverses the outcome, which
\* turns around the matches with equal keys
rank_matches_reversed(matches) ==
    LET Insert(acc, m) ==
            LET before == {i \in 1..Len(acc) :
                              KeyGreater(sort_key(acc[i]), sort_key(m))}
                pos    == IF before = {} THEN Len(acc) + 1
                          ELSE CHOOSE i \in before : \A j \in before : i <= j
            IN  SubSeq(acc, 1, pos - 1) \o <<m>> \o SubSeq(acc, pos, Len(acc))
        RECURSIVE F(_, _)
        F(i, acc) ==
            IF i > Len(matches) THEN acc ELSE F(i + 1, Insert(acc, matches[i]))
        Reversed(xs) == [i \in 1..Len(xs) |-> xs[Len(xs) + 1 - i]]
    IN  Reversed(F(1, <<>>))

\* MatchScorer.rank_matches: sorted(..., reverse=True), which is stable
rank_matches(matches) ==
    LET Insert(acc, m) ==
            LET before == {i \in 1..Len(acc) :
                              KeyGreater(sort_key(m), sort_key(acc[i]))}
                pos    == IF before = {} THEN Len(acc) + 1
                          ELSE CHOOSE i \in before : \A j \in before : i <= j
            IN  SubSeq(acc, 1, pos - 1) \o <<m>> \o SubSeq(acc, pos, Len(acc))
        RECURSIVE F(_, _)
        F(i, acc) ==
            IF i > Len(matches) THEN acc ELSE F(i + 1, Insert(acc, matches[i]))
    IN  F(1, <<>>)

\* max(f(m) for m in matches), for a non-empty list
MaxOver(matches, f(_)) ==
    LET vals == {f(matches[i]) : i \in 1..Len(matches)}
    IN  CHOOSE v \in vals : \A w \in vals : v >= w

\* len([m for m in matches if level(m) == lvl])
CountLevel(matches, lvl) ==
    Cardinality({i \in 1..Len(matches) :
        determine_risk_level(Get(matches[i], "risk_score", 0)) = lvl})

\* MatchScorer.create_match_summary
create_match_summary(matches) ==
    IF matches = <<>>
    THEN [total_matches |-> 0, highest_risk |-> "NONE",
          requires_review |-> FALSE, can_auto_clear |-> TRUE]
    ELSE LET highest_score == MaxOver(matches, LAMBDA m : Get(m, "risk_score", 0))
         IN  [total_matches   |-> Len(matches),
              highest_risk    |-> determine_risk_level(highest_score),
              highest_score   |-> highest_score,
              requires_review |-> requires_review(highest_score),
              can_auto_clear  |-> should_auto_clear(highest_score),
              risk_breakdown  |-> [HIGH   |-> CountLevel(matches, "HIGH"),
                                   MEDIUM |-> CountLevel(matches, "MEDIUM"),
                                   LOW    |-> CountLevel(matches, "LOW")]]

(***************************************************************************)
(* matching/engine.py                                                      *)
(***************************************************************************)

\* a _match_against_entry that goes on to the fuzzy and token matchers after
\* an exact match
match_against_entry_no_return(query_processed, sanction_row, lib) ==
    LET tail == [target_name |-> Get(sanction_row, "name", <<>>),
                 source      |-> Get(sanction_row, "source", ""),
                 list_type   |-> Get(sanction_row, "list_type", "")]
        FuzzyMatches(fuzzy_result) ==
            IF fuzzy_result.is_match
            THEN << fuzzy_result @@ tail
                    @@ [confidence |-> CASE fuzzy_result.match_level = "high" -> "HIGH"
                                         [] fuzzy_result.match_level = "medium" -> "MEDIUM"
                                         [] fuzzy_result.match_level = "low" -> "LOW"
                                         [] OTHER -> "NONE"] >>
            ELSE <<>>
        TokenMatches(sanction_tokens, token_result) ==
            IF sanction_tokens # <<>> /\ token_result.is_match
            THEN << token_result @@ tail @@ [confidence |-> "MEDIUM"] >>
            ELSE <<>>
        Matches(sanction_name, sanction_tokens, exact_result) ==
            IF sanction_name = <<>> THEN <<>>
            ELSE (IF exact_result.is_match
                  THEN << exact_result @@ tail @@ [confidence |-> "HIGH"] >>
                  ELSE <<>>)
                 \o
                 FuzzyMatches(FuzzyMatcher_match(query_processed.normalized,
                                                 sanction_name, lib))
                 \o
                 TokenMatches(sanction_tokens,
                              TokenMatcher_match(query_processed.tokens,
                                                 sanction_tokens))
        Entry(sanction_name, sanction_tokens) ==
            Matches(sanction_name, sanction_tokens,
                    ExactMatcher_match(query_processed.normalized, sanction_name))
    IN  Entry(Get(sanction_row, "normalized", Get(sanction_row, "name", <<>>)),
              Get(sanction_row, "tokens", <<>>))

\* MatchingEngine._match_against_entry
match_against_entry(query_processed, sanction_row, lib) ==
    LET tail == [target_name |-> Get(sanction_row, "name", <<>>),
                 source      |-> Get(sanction_row, "source", ""),
                 list_type   |-> Get(sanction_row, "list_type", "")]
        FuzzyMatches(fuzzy_result) ==
            IF fuzzy_result.is_match
            THEN << fuzzy_result @@ tail
                    @@ [confidence |-> CASE fuzzy_result.match_level = "high" -> "HIGH"
                                         [] fuzzy_result.match_level = "medium" -> "MEDIUM"
                                         [] fuzzy_result.match_level = "low" -> "LOW"
                                         [] OTHER -> "NONE"] >>
            ELSE <<>>
        TokenMatches(sanction_tokens, token_result) ==
            IF sanction_tokens # <<>> /\ token_result.is_match
            THEN << token_result @@ tail @@ [confidence |-> "MEDIUM"] >>
            ELSE <<>>
        Matches(sanction_name, sanction_tokens, exact_result) ==
            IF sanction_name = <<>> THEN <<>>
            ELSE IF exact_result.is_match
            THEN << exact_result @@ tail @@ [confidence |-> "HIGH"] >>
            ELSE FuzzyMatches(FuzzyMatcher_match(query_processed.normalized,
                                                 sanction_name, lib))
                 \o
                 TokenMatches(sanction_tokens,
                              TokenMatcher_match(query_processed.tokens,
                                                 sanction_tokens))
        Entry(sanction_name, sanction_tokens) ==
            Matches(sanction_name, sanction_tokens,
                    ExactMatcher_match(query_processed.normalized, sanction_name))
    IN  Entry(Get(sanction_row, "normalized", Get(sanction_row, "name", <<>>)),
              Get(sanction_row, "tokens", <<>>))

\* a screen_name whose length guard looks at the untrimmed name
screen_name_untrimmed(query_name, df, libs) ==
    IF query_name = <<>> \/ Len(query_name) < MIN_NAME_LENGTH
    THEN [query   |-> query_name,
          matches |-> <<>>,
          summary |-> create_match_summary(<<>>)]
    ELSE LET RECURSIVE Scan(_, _, _)
             Scan(query_processed, i, acc) ==
                 IF i > Len(df) THEN acc
                 ELSE Scan(query_processed, i + 1,
                           acc \o match_against_entry(query_processed, df[i], libs[i]))
             WithRisk(match, risk_score) ==
                 match @@ [risk_score |-> risk_score,
                           risk_level |-> determine_risk_level(risk_score)]
             Scored(matches) ==
                 [i \in 1..Len(matches) |->
                     WithRisk(matches[i],
                              calculate_risk_score(matches[i],
                                                   Get(matches[i], "source", "")))]
             Significant(matches) ==
                 SelectSeq(matches, LAMBDA m :
                     Get(m, "risk_score", 0) >= Pts(LOW_RISK_THRESHOLD))
             Result(query_processed, ranked_matches) ==
                 [query           |-> query_name,
                  processed_query |-> query_processed,
                  matches         |-> ranked_matches,
                  summary         |-> create_match_summary(ranked_matches)]
             Screen(query_processed) ==
                 Result(query_processed,
                        rank_matches(Significant(Scored(
                            Scan(query_processed, 1, <<>>)))))
         IN  Screen(process_single(query_name))

\* MatchingEngine.screen_name; libs[i] is what the similarity library
\* returns for the i-th row
screen_name(query_name, df, libs) ==
    IF query_name = <<>> \/ Len(Strip(query_name)) < MIN_NAME_LENGTH
    THEN [query   |-> query_name,
          matches |-> <<>>,
          summary |-> create_match_summary(<<>>)]
    ELSE LET RECURSIVE Scan(_, _, _)
             Scan(query_processed, i, acc) ==
                 IF i > Len(df) THEN acc
                 ELSE Scan(query_processed, i + 1,
                           acc \o match_against_entry(query_processed, df[i], libs[i]))
             WithRisk(match, risk_score) ==
                 match @@ [risk_score |-> risk_score,
                           risk_level |-> determine_risk_level(risk_score)]
             Scored(matches) ==
                 [i \in 1..Len(matches) |->
                     WithRisk(matches[i],
                              calculate_risk_score(matches[i],
                                                   Get(matches[i], "source", "")))]
             Significant(matches) ==
                 SelectSeq(matches, LAMBDA m :
                     Get(m, "risk_score", 0) >= Pts(LOW_RISK_THRESHOLD))
             Result(query_processed, ranked_matches) ==
                 [query           |-> query_name,
                  processed_query |-> query_processed,
                  matches         |-> ranked_matches,
                  summary         |-> create_match_summary(ranked_matches)]
             Screen(query_processed) ==
                 Result(query_processed,
                        rank_matches(Significant(Scored(
                            Scan(query_processed, 1, <<>>)))))
         IN  Screen(process_single(query_name))

\* NameProcessor.process_dataframe: every row gains the processed fields
process_dataframe(rows) ==
    [i \in 1..Len(rows) |->
        process_single(rows[i].name) @@ rows[i]]

(***************************************************************************)
(* flagging/filters.py                                                     *)
(*                                                                         *)
(* A filter returns the matches it keeps; the match dictionaries it drops  *)
(* stay on the heap as it left them, and are collected in `discarded`.     *)
(***************************************************************************)

common_words ==
    {<<"c", "o", "m", "p", "a", "n", "y">>, <<"c", "o", "r", "p", "o", "r", "a", "t", "i", "o", "n">>, <<"l", "i", "m", "i", "t", "e", "d">>, <<"l", "t", "d">>, <<"i", "n", "c">>, <<"l", "l", "c">>,
     <<"b", "a", "n", "k">>, <<"g", "r", "o", "u", "p">>, <<"i", "n", "t", "e", "r", "n", "a", "t", "i", "o", "n", "a", "l">>, <<"t", "r", "a", "d", "i", "n", "g">>, <<"s", "e", "r", "v", "i", "c", "e", "s">>,
     <<"f", "o", "u", "n", "d", "a", "t", "i", "o", "n">>, <<"a", "s", "s", "o", "c", "i", "a", "t", "i", "o", "n">>, <<"o", "r", "g", "a", "n", "i", "z", "a", "t", "i", "o", "n">>, <<"s", "o", "c", "i", "e", "t", "y">>}

filter_titles ==
    {<<"m", "r">>, <<"m", "r", "s">>, <<"m", "s">>, <<"d", "r">>, <<"p", "r", "o", "f">>, <<"s", "i", "r">>, <<"l", "a", "d", "y">>, <<"l", "o", "r", "d">>}

geographic_terms ==
    {<<"n", "o", "r", "t", "h">>, <<"s", "o", "u", "t", "h">>, <<"e", "a", "s", "t">>, <<"w", "e", "s", "t">>, <<"c", "e", "n", "t", "r", "a", "l">>, <<"n", "e", "w">>, <<"o", "l", "d">>,
     <<"c", "i", "t", "y">>, <<"t", "o", "w", "n">>, <<"v", "i", "l", "l", "a", "g", "e">>, <<"c", "o", "u", "n", "t", "y">>, <<"s", "t", "a", "t", "e">>, <<"p", "r", "o", "v", "i", "n", "c", "e">>,
     <<"r", "e", "p", "u", "b", "l", "i", "c">>, <<"k", "i", "n", "g", "d", "o", "m">>, <<"e", "m", "i", "r", "a", "t", "e", "s">>, <<"f", "e", "d", "e", "r", "a", "t", "i", "o", "n">>}

\* the loop shared by the filters: a match for which Drop holds is marked
\* and left out, the others are kept in order
FilterLoop(matches, Drop(_), reason) ==
    [kept      |-> SelectSeq(matches, LAMBDA m : ~Drop(m)),
     discarded |-> LET gone == SelectSeq(matches, Drop)
                   IN  [i \in 1..Len(gone) |->
                           [filtered |-> TRUE, filter_reason |-> reason] @@ gone[i]]]

\* FalsePositiveFilter._filter_common_words
filter_common_words(matches, q) ==
    LET query_lower == Lower(q)
        query_has_word == \E word \in common_words : Contains(query_lower, word)
        Drop(match) ==
            LET target_name == Lower(Get(match, "target_name", <<>>))
            IN  /\ query_has_word
                /\ \E word \in common_words : Contains(target_name, word)
                /\ Get(match, "score", 0) < Pts(75)
    IN  FilterLoop(matches, Drop, "Common business word match")

\* a short-name filter that lets a query of three characters through
filter_short_names_below(matches, q) ==
    IF Len(Strip(q)) < 3
    THEN [kept |-> <<>>, discarded |-> matches]
    ELSE LET Drop(match) ==
                 /\ Len(Strip(Get(match, "target_name", <<>>))) <= 3
                 /\ Get(match, "score", 0) < Pts(90)
         IN  FilterLoop(matches, Drop, "Short name with low confidence")

\* FalsePositiveFilter._filter_short_names
filter_short_names(matches, q) ==
    IF Len(Strip(q)) <= 3
    THEN [kept |-> <<>>, discarded |-> matches]
    ELSE LET Drop(match) ==
                 /\ Len(Strip(Get(match, "target_name", <<>>))) <= 3
                 /\ Get(match, "score", 0) < Pts(90)
         IN  FilterLoop(matches, Drop, "Short name with low confidence")

\* FalsePositiveFilter._filter_title_only_matches
filter_title_only_matches(matches, q) ==
    LET query_words == ToSet(Split(Lower(q)))
        TitleOnly(match, common_words_count, title_words_count) ==
            /\ title_words_count > 0
            /\ 2 * title_words_count > common_words_count
            /\ Get(match, "score", 0) < Pts(80)
        Common(match, common) ==
            TitleOnly(match, Cardinality(common),
                      Cardinality(common \cap filter_titles))
        Drop(match) ==
            Common(match,
                   query_words
                   \cap ToSet(Split(Lower(Get(match, "target_name", <<>>)))))
    IN  FilterLoop(matches, Drop, "Title-only match")

\* a weak-partial filter that asks for a match_ratio of 0.7
filter_weak_partial_matches_stricter(matches, q) ==
    LET Drop(match) ==
            /\ Get(match, "match_type", "") = "token"
            /\ Get(match, "score", 0) < Pts(70)
            /\ Get(Get(match, "details", EmptyDict), "match_ratio", 0) < 700
    IN  FilterLoop(matches, Drop, "Weak partial match")

\* FalsePositiveFilter._filter_weak_partial_matches
filter_weak_partial_matches(matches, q) ==
    LET Drop(match) ==
            /\ Get(match, "match_type", "") = "token"
            /\ Get(match, "score", 0) < Pts(70)
            /\ Get(Get(match, "details", EmptyDict), "match_ratio", 0) < 600
    IN  FilterLoop(matches, Drop, "Weak partial match")

\* FalsePositiveFilter._filter_geographic_false_positives
filter_geographic_false_positives(matches, q) ==
    LET query_lower == Lower(q)
        query_geo_words ==
            Cardinality({t \in geographic_terms : Contains(query_lower, t)})
        Drop(match) ==
            LET target_name == Lower(Get(match, "target_name", <<>>))
                target_geo_words ==
                    Cardinality({t \in geographic_terms : Contains(target_name, t)})
            IN  /\ query_geo_words > 0
                /\ target_geo_words > 0
                /\ Get(match, "score", 0) < Pts(75)
    IN  FilterLoop(matches, Drop, "Geographic false positive")

\* FalsePositiveFilter.filters, in insertion order
filters ==
    <<"common_words", "short_names", "title_only", "partial_weak", "geographic">>

\* self.filters[filter_name](matches, query)
RunFilter(filter_name, matches, q) ==
    CASE filter_name = "common_words" -> filter_common_words(matches, q)
      [] filter_name = "short_names"  -> filter_short_names(matches, q)
      [] filter_name = "title_only"   -> filter_title_only_matches(matches, q)
      [] filter_name = "partial_weak" -> filter_weak_partial_matches(matches, q)
      [] filter_name = "geographic"   -> filter_geographic_false_positives(matches, q)

\* FalsePositiveFilter.apply_filters
apply_filters(matches, q) ==
    LET RECURSIVE F(_, _, _)
        Continue(k, gone, r) == F(k + 1, r.kept, gone \o r.discarded)
        F(k, kept, gone) ==
            IF k > Len(filters)
            THEN [matches |-> kept, discarded |-> gone]
            ELSE Continue(k, gone, RunFilter(filters[k], kept, q))
    IN  F(1, matches, <<>>)

(***************************************************************************)
(* flagging/decisions.py                                                   *)
(***************************************************************************)

\* Python's None, as a dictionary value
None == [py_none |-> TRUE]

\* DecisionAction
DecisionAction == {"AUTO_CLEAR", "MANUAL_REVIEW", "ESCALATE", "BLOCK"}

\* Priority
Priority == {"LOW", "MEDIUM", "HIGH", "CRITICAL"}

\* DecisionMaker._requires_approval
requires_approval(action) ==
    CASE action = "AUTO_CLEAR"    -> FALSE
      [] action = "MANUAL_REVIEW" -> FALSE
      [] action = "ESCALATE"      -> TRUE
      [] action = "BLOCK"         -> TRUE
      [] OTHER                    -> TRUE

\* the rows of sla_matrix in DecisionMaker._get_sla_hours
sla_matrix ==
    [AUTO_CLEAR    |-> [LOW |-> 0,  MEDIUM |-> 0,  HIGH |-> 0, CRITICAL |-> 0],
     MANUAL_REVIEW |-> [LOW |-> 72, MEDIUM |-> 24, HIGH |-> 8, CRITICAL |-> 2],
     ESCALATE      |-> [LOW |-> 48, MEDIUM |-> 12, HIGH |-> 4, CRITICAL |-> 1],
     BLOCK         |-> [LOW |-> 24, MEDIUM |-> 8,  HIGH |-> 2, CRITICAL |-> 0]]

\* DecisionMaker._get_sla_hours
get_sla_hours(action, priority) ==
    IF action \in DOMAIN sla_matrix /\ priority \in DOMAIN sla_matrix[action]
    THEN sla_matrix[action][priority]
    ELSE 24

\* DecisionMaker.create_decision; kwargs is the dictionary of keyword
\* arguments
create_decision(action, reason, kwargs) ==
    LET optional == {"assigned_to", "match_details", "filter_applied"} \cap DOMAIN kwargs
    IN  [action            |-> action,
         reason            |-> reason,
         timestamp         |-> "datetime.now",
         confidence        |-> Get(kwargs, "confidence", "MEDIUM"),
         priority          |-> Get(kwargs, "priority", "MEDIUM"),
         requires_approval |-> requires_approval(action),
         sla_hours         |-> get_sla_hours(action, Get(kwargs, "priority", "MEDIUM"))]
        @@ [k \in optional |-> kwargs[k]]

\* the required fields as they would be if the timestamp were not asked for
required_fields_short == {"action", "reason", "confidence", "priority"}

\* required_fields of DecisionMaker.validate_decision
required_fields == {"action", "reason", "timestamp", "confidence", "priority"}

\* DecisionMaker.validate_decision
validate_decision(decision) ==
    /\ \A field \in required_fields : field \in DOMAIN decision
    /\ decision.action \in DecisionAction
    /\ decision.priority \in Priority

\* the routing table of DecisionMaker.get_workflow_routing
routing(action, priority) ==
    CASE action = "AUTO_CLEAR" ->
             [queue |-> "auto_processed", notification |-> FALSE,
              escalation_path |-> "None"]
      [] action = "MANUAL_REVIEW" ->
             [queue |-> "analyst_review", notification |-> TRUE,
              escalation_path |-> IF priority \in {"HIGH", "CRITICAL"}
                                  THEN "supervisor" ELSE "None"]
      [] action = "ESCALATE" ->
             [queue |-> "senior_analyst", notification |-> TRUE,
              escalation_path |-> "compliance_manager"]
      [] action = "BLOCK" ->
             [queue |-> "immediate_action", notification |-> TRUE,
              escalation_path |-> "compliance_manager"]

\* DecisionMaker.get_workflow_routing
get_workflow_routing(decision) ==
    LET action   == Get(decision, "action", "None")
        priority == Get(decision, "priority", "MEDIUM")
    IN  IF action \in DecisionAction
        THEN routing(action, priority)
        ELSE routing("MANUAL_REVIEW", priority)

(***************************************************************************)
(* flagging/rules.py                                                       *)
(*                                                                         *)
(* A rule yields a decision dictionary, None, or Raised when it raises.    *)
(* A reason is its text; the score formatted into the high-risk reason is  *)
(* kept beside the text.                                                   *)
(***************************************************************************)

\* ValueError: max() arg is an empty sequence
Raised == [exception |-> "ValueError"]

\* _exact_ofac_block as it would be if it kept the last qualifying match
\* of the loop instead of returning at the first
exact_ofac_block_last(matches, summary, result) ==
    LET hits == {i \in 1..Len(matches) :
                    /\ Get(matches[i], "source", "None") = "OFAC"
                    /\ Get(matches[i], "match_type", "None") = "exact"
                    /\ \/ Get(matches[i], "score", 0) = Pts(100)
                       \/ Get(matches[i], "risk_score", 0) = Pts(100)}
    IN  IF hits = {} THEN None
        ELSE LET match == matches[CHOOSE i \in hits : \A j \in hits : i >= j]
             IN  [action        |-> "BLOCK",
                  reason        |-> [text |-> <<"E", "x", "a", "c", "t", " ", "O", "F", "A", "C", " ", "m", "a", "t", "c", "h", ":", " ">>
                                              \o Get(match, "target_name", <<>>)],
                  confidence    |-> "HIGH",
                  priority      |-> "CRITICAL",
                  timestamp     |-> "auto-generated",
                  match_details |-> match]

\* BusinessRules._exact_ofac_block
exact_ofac_block(matches, summary, result) ==
    LET hits == {i \in 1..Len(matches) :
                    /\ Get(matches[i], "source", "None") = "OFAC"
                    /\ Get(matches[i], "match_type", "None") = "exact"
                    /\ \/ Get(matches[i], "score", 0) = Pts(100)
                       \/ Get(matches[i], "risk_score", 0) = Pts(100)}
    IN  IF hits = {} THEN None
        ELSE LET match == matches[CHOOSE i \in hits : \A j \in hits : i <= j]
             IN  [action        |-> "BLOCK",
                  reason        |-> [text |-> <<"E", "x", "a", "c", "t", " ", "O", "F", "A", "C", " ", "m", "a", "t", "c", "h", ":", " ">>
                                              \o Get(match, "target_name", <<>>)],
                  confidence    |-> "HIGH",
                  priority      |-> "CRITICAL",
                  timestamp     |-> "auto-generated",
                  match_details |-> match]

\* max(matches, key=risk_score): the first match with the highest score
FirstMaxRisk(matches) ==
    LET top == {i \in 1..Len(matches) :
                   \A j \in 1..Len(matches) :
                       Get(matches[i], "risk_score", 0) >= Get(matches[j], "risk_score", 0)}
    IN  matches[CHOOSE i \in top : \A j \in top : i <= j]

\* BusinessRules._high_risk_escalate
high_risk_escalate(matches, summary, result) ==
    LET highest_score == Get(summary, "highest_score", 0)
    IN  IF highest_score >= Pts(85)
        THEN IF matches = <<>> THEN Raised
             ELSE [action        |-> "ESCALATE",
                   reason        |-> [text  |-> <<"H", "i", "g", "h", "-", "r", "i", "s", "k", " ", "m", "a", "t", "c", "h", " ", "(", "s", "c", "o", "r", "e", ":", " ", ")">>,
                                      score |-> highest_score],
                   confidence    |-> "HIGH",
                   priority      |-> "HIGH",
                   timestamp     |-> "auto-generated",
                   assigned_to   |-> "senior_analyst",
                   match_details |-> FirstMaxRisk(matches)]
        ELSE None

\* BusinessRules._medium_risk_review
medium_risk_review(matches, summary, result) ==
    LET highest_score == Get(summary, "highest_score", 0)
    IN  IF Get(summary, "requires_review", FALSE) /\ highest_score < Pts(85)
        THEN [action        |-> "MANUAL_REVIEW",
              reason        |-> [text |-> <<"M", "e", "d", "i", "u", "m", "-", "r", "i", "s", "k", " ", "m", "a", "t", "c", "h", " ", "r", "e", "q", "u", "i", "r", "e", "s", " ", "r", "e", "v", "i", "e", "w">>],
              confidence    |-> "MEDIUM",
              priority      |-> "MEDIUM",
              assigned_to   |-> "analyst",
              match_details |-> IF matches # <<>> THEN matches[1] ELSE None]
        ELSE None

\* a low-risk rule that clears only when some match is left
low_risk_clear_nonempty(matches, summary, result) ==
    IF matches # <<>> /\ Get(summary, "can_auto_clear", FALSE)
    THEN [action     |-> "AUTO_CLEAR",
          reason     |-> [text |-> <<"L", "o", "w", " ", "r", "i", "s", "k", " ", "s", "c", "o", "r", "e", ",", " ", "a", "u", "t", "o", "-", "c", "l", "e", "a", "r", "e", "d">>],
          confidence |-> "MEDIUM",
          priority   |-> "LOW",
          timestamp  |-> "auto-generated"]
    ELSE None

\* BusinessRules._low_risk_clear
low_risk_clear(matches, summary, result) ==
    IF Get(summary, "can_auto_clear", FALSE)
    THEN [action     |-> "AUTO_CLEAR",
          reason     |-> [text |-> <<"L", "o", "w", " ", "r", "i", "s", "k", " ", "s", "c", "o", "r", "e", ",", " ", "a", "u", "t", "o", "-", "c", "l", "e", "a", "r", "e", "d">>],
          confidence |-> "MEDIUM",
          priority   |-> "LOW",
          timestamp  |-> "auto-generated"]
    ELSE None

common_names ==
    {<<"j", "o", "h", "n", " ", "s", "m", "i", "t", "h">>, <<"m", "a", "r", "y", " ", "j", "o", "h", "n", "s", "o", "n">>, <<"d", "a", "v", "i", "d", " ", "b", "r", "o", "w", "n">>, <<"m", "i", "c", "h", "a", "e", "l", " ", "d", "a", "v", "i", "s">>,
     <<"j", "a", "m", "e", "s", " ", "w", "i", "l", "s", "o", "n">>, <<"r", "o", "b", "e", "r", "t", " ", "m", "i", "l", "l", "e", "r">>, <<"w", "i", "l", "l", "i", "a", "m", " ", "m", "o", "o", "r", "e">>, <<"r", "i", "c", "h", "a", "r", "d", " ", "t", "a", "y", "l", "o", "r">>}

\* BusinessRules._common_name_filter
common_name_filter(matches, summary, result) ==
    LET q == Strip(Lower(Get(result, "query", <<>>)))
    IN  IF q \in common_names /\ Get(summary, "highest_score", 0) < Pts(80)
        THEN [action         |-> "AUTO_CLEAR",
              reason         |-> [text |-> <<"C", "o", "m", "m", "o", "n", " ", "n", "a", "m", "e", " ", "w", "i", "t", "h", " ", "l", "o", "w", " ", "c", "o", "n", "f", "i", "d", "e", "n", "c", "e", " ", "m", "a", "t", "c", "h">>],
              confidence     |-> "MEDIUM",
              priority       |-> "LOW",
              filter_applied |-> "common_name"]
        ELSE None

\* the rule table as it would be with its first two entries inserted in
\* the other order
rules_swapped ==
    <<"high_risk_escalate", "exact_ofac_block", "medium_risk_review",
      "low_risk_clear", "common_name_filter">>

\* BusinessRules.rules, in insertion order
rules ==
    <<"exact_ofac_block", "high_risk_escalate", "medium_risk_review",
      "low_risk_clear", "common_name_filter">>

\* self.rules[rule_name](matches, summary, screening_result)
RunRule(rule_name, matches, summary, result) ==
    CASE rule_name = "exact_ofac_block"   -> exact_ofac_block(matches, summary, result)
      [] rule_name = "high_risk_escalate" -> high_risk_escalate(matches, summary, result)
      [] rule_name = "medium_risk_review" -> medium_risk_review(matches, summary, result)
      [] rule_name = "low_risk_clear"     -> low_risk_clear(matches, summary, result)
      [] rule_name = "common_name_filter" -> common_name_filter(matches, summary, result)

\* the decision of BusinessRules.apply_rules when no rule fires
default_decision ==
    [action     |-> "AUTO_CLEAR",
     reason     |-> [text |-> <<"N", "o", " ", "s", "i", "g", "n", "i", "f", "i", "c", "a", "n", "t", " ", "m", "a", "t", "c", "h", "e", "s", " ", "f", "o", "u", "n", "d">>],
     confidence |-> "HIGH",
     priority   |-> "LOW",
     timestamp  |-> "auto-generated"]

\* BusinessRules.apply_rules: Raised, or the screening result extended by
\* the decision and the name of the rule that made it
apply_rules(result) ==
    LET matches == Get(result, "matches", <<>>)
        summary == Get(result, "summary", EmptyDict)
        RECURSIVE F(_)
        Decide(k, decision) ==
            IF decision = Raised THEN Raised
            ELSE IF decision # None
            THEN [decision |-> decision, applied_rule |-> rules[k]] @@ result
            ELSE F(k + 1)
        F(k) ==
            IF k > Len(rules)
            THEN [decision |-> default_decision, applied_rule |-> "default"] @@ result
            ELSE Decide(k, RunRule(rules[k], matches, summary, result))
    IN  F(1)

(***************************************************************************)
(* flagging/engine.py                                                      *)
(***************************************************************************)

\* FlaggingEngine._generate_compliance_metadata; the screening id is a
\* fresh identifier and is left out
generate_compliance_metadata(result) ==
    LET decision == Get(result, "decision", EmptyDict)
        matches  == Get(result, "matches", <<>>)
        metadata ==
            [total_matches_found     |-> Len(matches) + Get(result, "filtered_count", 0),
             matches_after_filtering |-> Len(matches),
             highest_risk_score      |->
                 IF matches = <<>> THEN 0
                 ELSE MaxOver(matches, LAMBDA m : Get(m, "risk_score", 0)),
             decision_action         |-> Get(decision, "action", "None"),
             decision_confidence     |-> Get(decision, "confidence", "None"),
             requires_approval       |-> Get(decision, "requires_approval", FALSE),
             sla_hours               |-> Get(decision, "sla_hours", 24),
             applied_rule            |-> Get(result, "applied_rule", "None"),
             processing_time_ms      |-> 0]
    IN  IF matches # <<>>
        THEN [risk_assessment |->
                 [primary_concern  |-> Get(matches[1], "source", "Unknown"),
                  match_type       |-> Get(matches[1], "match_type", "Unknown"),
                  confidence_level |-> Get(matches[1], "confidence", "MEDIUM")]]
             @@ metadata
        ELSE metadata

\* the substitute decision as it would be with an action and a priority
\* that are not members of the enumerations
fallback_decision_unlisted ==
    create_decision("REVIEW",
                    [text |-> <<"D", "e", "c", "i", "s", "i", "o", "n", " ", "v", "a", "l", "i", "d", "a", "t", "i", "o", "n", " ", "f", "a", "i", "l", "e", "d", ",", " ", "r", "o", "u", "t", "i", "n", "g", " ", "f", "o", "r", " ", "m", "a", "n", "u", "a", "l", " ", "r", "e", "v", "i", "e", "w">>],
                    [priority |-> "NORMAL"])

\* the decision FlaggingEngine.process_screening_result substitutes when
\* validation fails
fallback_decision ==
    create_decision("MANUAL_REVIEW",
                    [text |-> <<"D", "e", "c", "i", "s", "i", "o", "n", " ", "v", "a", "l", "i", "d", "a", "t", "i", "o", "n", " ", "f", "a", "i", "l", "e", "d", ",", " ", "r", "o", "u", "t", "i", "n", "g", " ", "f", "o", "r", " ", "m", "a", "n", "u", "a", "l", " ", "r", "e", "v", "i", "e", "w">>],
                    [priority |-> "MEDIUM"])

\* FlaggingEngine.process_screening_result.  `input` is the caller's
\* dictionary after the call (it is updated in place), `raised` tells
\* whether the call raised, `flagged` is what apply_rules returned and
\* `output` is the dictionary the call returned.
process_screening_result(result) ==
    LET original_matches == Get(result, "matches", <<>>)
        \* Steps 3 and 4: validate and enhance the decision, add the metadata
        Validated(decision) ==
            IF validate_decision(decision)
            THEN [workflow |-> get_workflow_routing(decision)] @@ decision
            ELSE fallback_decision
        WithCompliance(decided) ==
            [compliance |-> generate_compliance_metadata(decided)] @@ decided
        \* Step 2: apply the business rules
        Flagged(updated, gone, flagged) ==
            IF flagged = Raised
            THEN [raised |-> TRUE, input |-> updated, discarded |-> gone]
            ELSE [raised    |-> FALSE,
                  input     |-> updated,
                  discarded |-> gone,
                  flagged   |-> flagged,
                  output    |-> WithCompliance(
                                    [decision |-> Validated(Get(flagged, "decision",
                                                                EmptyDict))]
                                    @@ flagged)]
        Updated(updated, gone) == Flagged(updated, gone, apply_rules(updated))
        \* Step 1: apply the false positive filters
        Filtered(filtered) ==
            Updated([matches        |-> filtered.matches,
                     filtered_count |-> Len(original_matches) - Len(filtered.matches)]
                    @@ result,
                    filtered.discarded)
    IN  Filtered(apply_filters(original_matches, Get(result, "query", <<>>)))

(***************************************************************************)
(* The screening requests that are explored                                *)
(***************************************************************************)

\* longest candidate list
MaxCandidates == 2

Queries ==
    {<<>>,
     <<"A", "l">>,
     <<" ", "A", "l">>,
     <<"B", "o", "b">>,
     <<"D", "r", " ", "B", "o", "b">>,
     <<"J", "o", "h", "n", " ", "S", "m", "i", "t", "h">>,
     <<"N", "e", "w", " ", "B", "a", "n", "k">>,
     <<"O", "l", "d">>,
     <<"O", "s", "a", "m", "a", " ", "b", "i", "n", " ", "L", "a", "d", "e", "n">>}

\* raw rows as the ingestion hands them over
CandidateRows ==
    {[name |-> <<"B", "o", "b">>,             source |-> "OFAC",     list_type |-> "SDN"],
     [name |-> <<"J", "o", "h", "n", " ", "S", "m", "i", "t", "h">>,      source |-> "INTERPOL", list_type |-> "Individual"],
     [name |-> <<"J", "o", "h", "n", " ", "S", "m", "i", "t", "h">>,      source |-> "EU",       list_type |-> "Individual"],
     [name |-> <<"O", "s", "a", "m", "a", " ", "b", "i", "n", " ", "L", "a", "d", "e", "n">>, source |-> "OFAC",     list_type |-> "SDN"],
     [name |-> <<"O", "s", "a", "m", "a", " ", "L", "a", "d", "e", "n">>,     source |-> "OFAC",     list_type |-> "SDN"],
     [name |-> <<"D", "r", " ", "R", "o", "b">>,          source |-> "OFAC",     list_type |-> "Individual"],
     [name |-> <<"O", "l", "d", " ", "B", "a", "n", "k">>,        source |-> "UN",       list_type |-> "Entity"]}

\* the lists of at most MaxCandidates distinct rows, in any order
CandidateLists ==
    UNION {{rows \in [1..n -> CandidateRows] :
               \A i, j \in 1..n : i # j => rows[i] # rows[j]} :
           n \in 0..MaxCandidates}

\* replies of the similarity library for the three metrics it alone
\* computes, in the fixed-point unit
LibraryReplies ==
    {[partial |-> 0,        token_sort |-> 0,        token_set |-> 0],
     [partial |-> Pts(80),  token_sort |-> Pts(80),  token_set |-> Pts(80)],
     [partial |-> Pts(100), token_sort |-> Pts(100), token_set |-> Pts(100)]}

(***************************************************************************)
(* interface/api/endpoints.py: the sanctions data is loaded at startup,    *)
(* then names are screened one request at a time                           *)
(***************************************************************************)

Init ==
    /\ pc = "start"
    /\ query = <<>>
    /\ sanctions_df = <<>>
    /\ similarity = <<>>
    /\ screening_result = EmptyDict
    /\ rules_result = EmptyDict
    /\ flagged_result = EmptyDict
    /\ discarded = <<>>
    /\ names = <<>>
    /\ results = <<>>
    /\ returned_matches = <<>>
    /\ seen = <<>>
    /\ load_status = "none"
    /\ data_is_none = TRUE

\* startup_event: sanctions_data = processor.process_dataframe(...)
LoadSanctions ==
    /\ pc = "start"
    /\ \E rows \in CandidateLists : sanctions_df' = process_dataframe(rows)
    /\ load_status' = "loaded"
    /\ data_is_none' = FALSE
    /\ pc' = "idle"
    /\ UNCHANGED <<query, similarity, screening_result, rules_result,
                   flagged_result, discarded, names, results>>
    /\ UNCHANGED <<returned_matches, seen>>

\* matching_engine.screen_name(request.name, sanctions_data)
ScreenName ==
    /\ pc = "idle"
    /\ \E q \in Queries :
         \E libs \in [1..Len(sanctions_df) -> LibraryReplies] :
            /\ query' = q
            /\ similarity' = libs
            /\ screening_result' = screen_name(q, sanctions_df, libs)
    /\ pc' = "screened"
    /\ UNCHANGED <<sanctions_df, rules_result, flagged_result, discarded,
                   names, results>>
    /\ UNCHANGED server_vars

\* flagging_engine.process_screening_result(screening_result)
ProcessScreeningResult ==
    /\ pc = "screened"
    /\ \E r \in {process_screening_result(screening_result)} :
           /\ screening_result' = r.input
           /\ discarded' = r.discarded
           /\ IF r.raised
              THEN pc' = "raised" /\ UNCHANGED <<rules_result, flagged_result>>
              ELSE /\ pc' = "flagged"
                   /\ rules_result' = r.flagged
                   /\ flagged_result' = r.output
    /\ UNCHANGED <<query, sanctions_df, similarity, names, results>>
    /\ UNCHANGED server_vars

\* the request is answered (or failed with status 500); the next one starts
NextRequest ==
    /\ pc \in {"flagged", "raised"}
    /\ pc' = "idle"
    /\ query' = <<>>
    /\ similarity' = <<>>
    /\ screening_result' = EmptyDict
    /\ rules_result' = EmptyDict
    /\ flagged_result' = EmptyDict
    /\ discarded' = <<>>
    /\ UNCHANGED <<sanctions_df, names, results>>
    /\ UNCHANGED server_vars

Next == LoadSanctions \/ ScreenName \/ ProcessScreeningResult \/ NextRequest

Spec == Init /\ [][Next]_vars

(***************************************************************************)
(* Properties of the screening pipeline, read in the states after a        *)
(* request has been processed: pc = "flagged" when                         *)
(* process_screening_result returned, pc = "raised" when it raised.  In    *)
(* both, screening_result holds the filtered matches and the summary that  *)
(* the rules were given.                                                   *)
(***************************************************************************)

\* the decision returned to the caller
final_decision == flagged_result.decision

\* the matches that survived the filters
surviving == screening_result.matches

\* C1: for every query and every candidate list, screen_name followed by
\* process_screening_result completes and returns a result; no input makes
\* the pipeline raise.
C1_NeverRaises == pc # "raised"

\* the rows that are OFAC candidates with the normalized form of the query
OfacHits ==
    {i \in 1..Len(sanctions_df) :
        /\ sanctions_df[i].source = "OFAC"
        /\ sanctions_df[i].normalized = process_single(query).normalized}

\* a processed request whose query has at least min_length characters after
\* trimming and a non-empty normalized form shared by an OFAC candidate
ExactOfacCase(min_length) ==
    /\ pc \in {"flagged", "raised"}
    /\ Len(Strip(query)) >= min_length
    /\ process_single(query).normalized # <<>>
    /\ OfacHits # {}

\* the request was decided BLOCK, CRITICAL, HIGH, the reason holding the
\* display name of row i
BlockCiting(i) ==
    /\ pc = "flagged"
    /\ final_decision.action = "BLOCK"
    /\ final_decision.priority = "CRITICAL"
    /\ final_decision.confidence = "HIGH"
    /\ Contains(final_decision.reason.text, sanctions_df[i].name)

\* C2 as stated: a query of trimmed length >= 3 whose non-empty normalized
\* form equals that of an OFAC candidate is decided BLOCK, CRITICAL, HIGH,
\* and the reason contains that candidate's display name.
C2_ExactOfacBlocksFrom3 ==
    ExactOfacCase(3) => \A i \in OfacHits : BlockCiting(i)

\* C2: a query of trimmed length >= 4 whose non-empty normalized form equals
\* that of an OFAC candidate is decided BLOCK, CRITICAL, HIGH, and the reason
\* contains the display name of the first such candidate of the list.
C2_ExactOfacBlocks ==
    ExactOfacCase(4) =>
        BlockCiting(CHOOSE i \in OfacHits : \A j \in OfacHits : i <= j)

\* two OFAC candidates of different display names share the normalized form
\* of the query, and the request was decided
C2_Witness ==
    /\ ExactOfacCase(4)
    /\ pc = "flagged"
    /\ \E i, j \in OfacHits : sanctions_df[i].name # sanctions_df[j].name

\* C3: the action of every returned decision is one of AUTO_CLEAR,
\* MANUAL_REVIEW, ESCALATE, BLOCK and its priority one of LOW, MEDIUM, HIGH,
\* CRITICAL, whichever rule or fallback produced it.
C3_EnumeratedDecision ==
    pc = "flagged" =>
        /\ final_decision.action \in {"AUTO_CLEAR", "MANUAL_REVIEW", "ESCALATE", "BLOCK"}
        /\ final_decision.priority \in {"LOW", "MEDIUM", "HIGH", "CRITICAL"}

\* a decision made by the fallback after the common-name rule fired
C3_Witness ==
    /\ pc = "flagged"
    /\ rules_result.applied_rule = "common_name_filter"
    /\ final_decision.action = "MANUAL_REVIEW"

\* the highest risk level among the surviving matches
HighestSurvivingLevel ==
    LET levels == {surviving[i].risk_level : i \in 1..Len(surviving)}
    IN  IF "HIGH" \in levels THEN "HIGH"
        ELSE IF "MEDIUM" \in levels THEN "MEDIUM"
        ELSE IF "LOW" \in levels THEN "LOW"
        ELSE "NONE"

\* C4: when the highest risk level among the surviving matches is MEDIUM the
\* final decision is MANUAL_REVIEW with priority MEDIUM, when it is HIGH the
\* decision is ESCALATE or BLOCK, and in neither case AUTO_CLEAR.
C4_RiskLevelDecides ==
    pc = "flagged" =>
        /\ HighestSurvivingLevel = "MEDIUM" =>
               /\ final_decision.action = "MANUAL_REVIEW"
               /\ final_decision.priority = "MEDIUM"
        /\ HighestSurvivingLevel = "HIGH" =>
               final_decision.action \in {"ESCALATE", "BLOCK"}
        /\ HighestSurvivingLevel \in {"MEDIUM", "HIGH"} =>
               final_decision.action # "AUTO_CLEAR"

\* C5: the summary of the returned result is the aggregate over the returned
\* (post-filter) matches: total_matches is their number, highest_score their
\* maximum risk_score, requires_review and can_auto_clear derived from it.
C5_SummaryOfSurvivors ==
    pc = "flagged" =>
        LET returned == flagged_result.matches
            summary  == flagged_result.summary
            highest  == MaxOver(returned, LAMBDA m : m.risk_score)
        IN  /\ summary.total_matches = Len(returned)
            /\ returned = <<>> =>
                   /\ "highest_score" \notin DOMAIN summary
                   /\ ~summary.requires_review
                   /\ summary.can_auto_clear
            /\ returned # <<>> =>
                   /\ summary.highest_score = highest
                   /\ summary.requires_review = (highest >= Pts(85))
                   /\ summary.can_auto_clear = (highest < Pts(60))

\* C6: the returned decision carries requires_approval, true exactly for
\* ESCALATE and BLOCK, and sla_hours, the entry of the action x priority
\* matrix; the compliance metadata reports the same two values.
C6_ApprovalAndSla ==
    pc = "flagged" =>
        /\ {"requires_approval", "sla_hours"} \subseteq DOMAIN final_decision
        /\ final_decision.requires_approval
               = (final_decision.action \in {"ESCALATE", "BLOCK"})
        /\ final_decision.sla_hours
               = sla_matrix[final_decision.action][final_decision.priority]
        /\ flagged_result.compliance.requires_approval
               = final_decision.requires_approval
        /\ flagged_result.compliance.sla_hours = final_decision.sla_hours

\* C7: when the lower-cased, trimmed query is a fixed common name, no earlier
\* rule fires and the summary's highest_score is below 80, the final decision
\* is AUTO_CLEAR with filter_applied = "common_name".
C7_CommonNameClears ==
    (/\ pc = "flagged"
     /\ Strip(Lower(query)) \in common_names
     /\ rules_result.applied_rule = "common_name_filter"
     /\ Get(flagged_result.summary, "highest_score", 0) < Pts(80))
    => /\ final_decision.action = "AUTO_CLEAR"
       /\ "filter_applied" \in DOMAIN final_decision
       /\ final_decision.filter_applied = "common_name"

\* C8: every returned decision, the fallback included, carries the workflow
\* record of the routing table for its action; MANUAL_REVIEW escalates to the
\* supervisor exactly when its priority is HIGH or CRITICAL.
C8_WorkflowAttached ==
    pc = "flagged" =>
        /\ "workflow" \in DOMAIN final_decision
        /\ final_decision.workflow
               = routing(final_decision.action, final_decision.priority)

\* the structural validity of a decision: the five required fields, an
\* enumerated action and an enumerated priority
StructurallyValid(d) ==
    /\ {"action", "reason", "timestamp", "confidence", "priority"} \subseteq DOMAIN d
    /\ d.action \in {"AUTO_CLEAR", "MANUAL_REVIEW", "ESCALATE", "BLOCK"}
    /\ d.priority \in {"LOW", "MEDIUM", "HIGH", "CRITICAL"}

\* C9: when the decision the rules assembled is not structurally valid, the
\* returned decision is MANUAL_REVIEW with the reason "Decision validation
\* failed, routing for manual review", and is itself structurally valid.
C9_FallbackOnInvalid ==
    (pc = "flagged" /\ ~StructurallyValid(rules_result.decision)) =>
        /\ final_decision.action = "MANUAL_REVIEW"
        /\ final_decision.reason.text
               = <<"D", "e", "c", "i", "s", "i", "o", "n", " ", "v", "a", "l", "i", "d", "a", "t", "i", "o", "n", " ", "f", "a", "i", "l", "e", "d", ",", " ", "r", "o", "u", "t", "i", "n", "g", " ", "f", "o", "r", " ", "m", "a", "n", "u", "a", "l", " ", "r", "e", "v", "i", "e", "w">>
        /\ StructurallyValid(final_decision)

\* the rules assembled a decision without a timestamp
C9_Witness ==
    /\ pc = "flagged"
    /\ "timestamp" \notin DOMAIN rules_result.decision
    /\ final_decision # rules_result.decision

\* the order in which the rules are to be tried, the default last
FixedOrder ==
    <<"exact_ofac_block", "high_risk_escalate", "medium_risk_review",
      "low_risk_clear", "common_name_filter", "default">>

\* the condition of each rule, on what the rules were given
ConditionHolds(rule_name) ==
    LET summary == screening_result.summary
        highest == Get(summary, "highest_score", 0)
    IN  CASE rule_name = "exact_ofac_block" ->
                 \E i \in 1..Len(surviving) :
                     /\ surviving[i].source = "OFAC"
                     /\ surviving[i].match_type = "exact"
                     /\ \/ surviving[i].score = Pts(100)
                        \/ surviving[i].risk_score = Pts(100)
          [] rule_name = "high_risk_escalate" -> highest >= Pts(85)
          [] rule_name = "medium_risk_review" ->
                 summary.requires_review /\ highest < Pts(85)
          [] rule_name = "low_risk_clear" -> summary.can_auto_clear
          [] rule_name = "common_name_filter" ->
                 Strip(Lower(query)) \in common_names /\ highest < Pts(80)
          [] rule_name = "default" -> TRUE

\* the first rule of the fixed order whose condition holds
FirstHolding ==
    FixedOrder[CHOOSE k \in 1..Len(FixedOrder) :
                   /\ ConditionHolds(FixedOrder[k])
                   /\ \A j \in 1..(k - 1) : ~ConditionHolds(FixedOrder[j])]

\* the action each rule decides
ActionOfRule ==
    [exact_ofac_block   |-> "BLOCK",
     high_risk_escalate |-> "ESCALATE",
     medium_risk_review |-> "MANUAL_REVIEW",
     low_risk_clear     |-> "AUTO_CLEAR",
     common_name_filter |-> "AUTO_CLEAR",
     default            |-> "AUTO_CLEAR"]

\* C10: apply_rules tries the rules in the fixed order exact_ofac_block,
\* high_risk_escalate, medium_risk_review, low_risk_clear,
\* common_name_filter, default; the applied_rule and the decision it returns
\* are those of the first rule in that order whose condition holds, and when
\* it raises instead, it is in that first rule.
C10_FirstRuleWins ==
    /\ pc = "flagged" =>
           /\ rules_result.applied_rule = FirstHolding
           /\ rules_result.decision.action = ActionOfRule[FirstHolding]
    /\ pc = "raised" => FirstHolding = "high_risk_escalate"

\* the conditions of the first two rules both hold and the first one decided
C10_Witness ==
    /\ pc = "flagged"
    /\ ConditionHolds("exact_ofac_block")
    /\ ConditionHolds("high_risk_escalate")
    /\ rules_result.applied_rule = "exact_ofac_block"

\* the decision is the escalation of the highest surviving match
EscalatesHighest ==
    /\ pc = "flagged"
    /\ final_decision.action = "ESCALATE"
    /\ final_decision.priority = "HIGH"
    /\ final_decision.confidence = "HIGH"
    /\ Get(final_decision, "assigned_to", "") = "senior_analyst"
    /\ \E i \in 1..Len(surviving) :
           /\ Get(final_decision, "match_details", None) = surviving[i]
           /\ \A j \in 1..Len(surviving) :
                  surviving[i].risk_score >= surviving[j].risk_score

\* C11: when no exact OFAC block applies and the summary's highest_score is
\* at least 85, the decision is ESCALATE with priority HIGH, confidence HIGH
\* and assigned_to senior_analyst, and its match_details is a surviving
\* match whose risk_score is the largest among the surviving matches.
C11_HighRiskEscalates ==
    (/\ pc \in {"flagged", "raised"}
     /\ ~ConditionHolds("exact_ofac_block")
     /\ Get(screening_result.summary, "highest_score", 0) >= Pts(HIGH_RISK_THRESHOLD))
    => EscalatesHighest

\* C12: every query screened against an empty candidate list yields zero
\* matches and a summary whose highest_risk is NONE, and the final action
\* is AUTO_CLEAR.
C12_EmptyListClears ==
    sanctions_df = <<>> =>
        /\ pc # "raised"
        /\ pc \in {"screened", "flagged"} =>
               /\ screening_result.matches = <<>>
               /\ screening_result.summary.total_matches = 0
               /\ screening_result.summary.highest_risk = "NONE"
        /\ pc = "flagged" =>
               /\ Get(screening_result, "filtered_count", 0) = 0
               /\ final_decision.action = "AUTO_CLEAR"

\* a name long enough to be screened was screened against the empty list
\* and cleared
C12_Witness ==
    /\ pc = "flagged"
    /\ sanctions_df = <<>>
    /\ Len(Strip(query)) >= MIN_NAME_LENGTH
    /\ "processed_query" \in DOMAIN screening_result
    /\ final_decision.action = "AUTO_CLEAR"

\* what screen_name returns for a name it refuses to screen
EmptyResult(query_name) ==
    [query   |-> query_name,
     matches |-> <<>>,
     summary |-> [total_matches   |-> 0,
                  highest_risk    |-> "NONE",
                  requires_review |-> FALSE,
                  can_auto_clear  |-> TRUE]]

\* C13: for a query whose trimmed length is below 3, the empty string
\* included, screen_name returns no matches and the empty summary
\* (highest_risk NONE) whatever the candidate list contains, the name is not
\* preprocessed and no candidate is evaluated; the final decision is
\* AUTO_CLEAR.
C13_ShortQueryNotScreened ==
    Len(Strip(query)) < MIN_NAME_LENGTH =>
        /\ pc # "raised"
        /\ pc = "screened" => screening_result = EmptyResult(query)
        /\ pc = "flagged" =>
               /\ screening_result = EmptyResult(query) @@ [filtered_count |-> 0]
               /\ discarded = <<>>
               /\ final_decision.action = "AUTO_CLEAR"

\* a name of raw length 3 and trimmed length 2 was refused although the
\* list holds candidates, and was cleared
C13_Witness ==
    /\ pc = "flagged"
    /\ Len(query) = MIN_NAME_LENGTH
    /\ Len(Strip(query)) < MIN_NAME_LENGTH
    /\ Len(sanctions_df) = MaxCandidates
    /\ screening_result.matches = <<>>
    /\ final_decision.action = "AUTO_CLEAR"

\* the condition under which each filter removes a match, on the query of
\* the request
FilterPredicate(filter_name, match) ==
    LET score == Get(match, "score", 0)
        target_name == Lower(Get(match, "target_name", <<>>))
        shared == ToSet(Split(Lower(query))) \cap ToSet(Split(target_name))
    IN  CASE filter_name = "common_words" ->
                 /\ \E word \in common_words : Contains(Lower(query), word)
                 /\ \E word \in common_words : Contains(target_name, word)
                 /\ score < Pts(75)
          [] filter_name = "short_names" ->
                 \/ Len(Strip(query)) <= 3
                 \/ /\ Len(Strip(Get(match, "target_name", <<>>))) <= 3
                    /\ score < Pts(90)
          [] filter_name = "title_only" ->
                 /\ shared \cap filter_titles # {}
                 /\ 2 * Cardinality(shared \cap filter_titles) > Cardinality(shared)
                 /\ score < Pts(80)
          [] filter_name = "partial_weak" ->
                 /\ Get(match, "match_type", "") = "token"
                 /\ score < Pts(70)
                 /\ Get(Get(match, "details", EmptyDict), "match_ratio", 0) < 600
          [] filter_name = "geographic" ->
                 /\ \E t \in geographic_terms : Contains(Lower(query), t)
                 /\ \E t \in geographic_terms : Contains(target_name, t)
                 /\ score < Pts(75)

\* the reason each filter gives
FilterReason ==
    [common_words |-> "Common business word match",
     short_names  |-> "Short name with low confidence",
     title_only   |-> "Title-only match",
     partial_weak |-> "Weak partial match",
     geographic   |-> "Geographic false positive"]

FilterOrder ==
    <<"common_words", "short_names", "title_only", "partial_weak", "geographic">>

\* a removed match as it was before any filter marked it
Unmarked(match) ==
    [k \in DOMAIN match \ {"filtered", "filter_reason"} |-> match[k]]

\* the filters, in order, whose predicate the match satisfies
FiltersMatching(match) ==
    {k \in 1..Len(FilterOrder) : FilterPredicate(FilterOrder[k], match)}

\* the number of positions of xs that hold x
Occurrences(xs, x) == Cardinality({i \in 1..Len(xs) : xs[i] = x})

\* C14: the five filters run in the order common_words, short_names,
\* title_only, partial_weak, geographic, each on the survivors of the
\* previous one: a match that satisfies the predicates of several filters is
\* removed exactly once, carries the reason of the first filter that matched
\* it and never reappears among the survivors, and filtered_count is the
\* number of input matches minus the number of surviving ones.
C14_FiltersInOrder ==
    pc \in {"flagged", "raised"} =>
        LET Holds(original) ==
                /\ screening_result.filtered_count = Len(original) - Len(surviving)
                /\ Len(discarded) + Len(surviving) = Len(original)
                /\ \A i \in 1..Len(original) :
                       Occurrences(original, original[i])
                       = Occurrences(surviving, original[i])
                         + Occurrences([j \in 1..Len(discarded) |->
                                           Unmarked(discarded[j])], original[i])
                /\ \A i \in 1..Len(surviving) : FiltersMatching(surviving[i]) = {}
                /\ \A i \in 1..Len(discarded) :
                       LET first ==
                               CHOOSE k \in FiltersMatching(Unmarked(discarded[i])) :
                                   \A j \in FiltersMatching(Unmarked(discarded[i])) : k <= j
                       IN  /\ FiltersMatching(Unmarked(discarded[i])) # {}
                           /\ Cardinality(FiltersMatching(Unmarked(discarded[i]))) > 1
                                  => /\ Get(discarded[i], "filtered", FALSE)
                                     /\ Get(discarded[i], "filter_reason", "")
                                        = FilterReason[FilterOrder[first]]
        IN  Holds(screen_name(query, sanctions_df, similarity).matches)

\* C15: every match that apply_filters removes is marked filtered = true
\* and carries a filter_reason, and no surviving match carries the filtered
\* mark.
C15_RemovedAreMarked ==
    pc \in {"flagged", "raised"} =>
        /\ \A i \in 1..Len(discarded) :
               /\ Get(discarded[i], "filtered", FALSE)
               /\ "filter_reason" \in DOMAIN discarded[i]
        /\ \A i \in 1..Len(surviving) : "filtered" \notin DOMAIN surviving[i]

(***************************************************************************)
(* MatchingEngine._match_against_entry on its own: one query, one row of   *)
(* the processed sanctions data, one reply of the similarity library       *)
(***************************************************************************)

EntryQueries ==
    {<<"B", "o", "b">>, <<"D", "r", " ", "B", "o", "b">>, <<"M", "r", "s">>, <<"J", "o", "h", "n", " ", "S", "m", "i", "t", "h">>, <<"O", "s", "a", "m", "a", " ", "b", "i", "n", " ", "L", "a", "d", "e", "n">>,
     <<"O", "s", "a", "m", "a", " ", "L", "a", "d", "e", "n">>}

EntryRows ==
    CandidateRows
    \cup {[name |-> <<"M", "r">>, source |-> "OFAC", list_type |-> "Individual"]}

EntryInit ==
    /\ pc = "entry"
    /\ query \in EntryQueries
    /\ sanctions_df \in {process_dataframe(<<row>>) : row \in EntryRows}
    /\ similarity \in {<<lib>> : lib \in LibraryReplies}
    /\ screening_result = EmptyDict
    /\ rules_result = EmptyDict
    /\ flagged_result = EmptyDict
    /\ discarded = <<>>
    /\ names = <<>>
    /\ results = <<>>
    /\ returned_matches = <<>>
    /\ seen = <<>>
    /\ load_status = "loaded"
    /\ data_is_none = FALSE

\* query_processed = self.processor.process_single(query_name);
\* self._match_against_entry(query_processed, sanction_row)
MatchAgainstEntry ==
    /\ pc = "entry"
    /\ pc' = "matched"
    /\ \E query_processed \in {process_single(query)} :
           screening_result' =
               [processed_query |-> query_processed,
                matches |-> match_against_entry(query_processed, sanctions_df[1],
                                                similarity[1])]
    /\ UNCHANGED <<query, sanctions_df, similarity, rules_result,
                   flagged_result, discarded, names, results>>
    /\ UNCHANGED server_vars

EntryNext == MatchAgainstEntry

EntrySpec == EntryInit /\ [][EntryNext]_vars

\* the records of one type among those emitted for the row
RecordsOfType(match_type) ==
    {i \in 1..Len(screening_result.matches) :
        screening_result.matches[i].match_type = match_type}

\* exactly one record, of type exact and score 100
OneExactRecord ==
    /\ Len(screening_result.matches) = 1
    /\ screening_result.matches[1].match_type = "exact"
    /\ screening_result.matches[1].score = Pts(100)

\* no exact record, at most one fuzzy and at most one token record
FuzzyAndTokenOnly ==
    /\ RecordsOfType("exact") = {}
    /\ Cardinality(RecordsOfType("fuzzy")) <= 1
    /\ Cardinality(RecordsOfType("token")) <= 1
    /\ Cardinality(RecordsOfType("fuzzy")) + Cardinality(RecordsOfType("token"))
       = Len(screening_result.matches)

\* C16 as stated: for each candidate, _match_against_entry emits exactly one
\* record, of match_type exact and score 100, when the normalized form of
\* the query equals that of the candidate, and no fuzzy or token record for
\* it; otherwise at most one fuzzy and at most one token record, possibly
\* both.
C16_ExactOrFuzzyToken ==
    pc = "matched" =>
        IF screening_result.processed_query.normalized = sanctions_df[1].normalized
        THEN OneExactRecord
        ELSE FuzzyAndTokenOnly

\* C16, amended: a candidate whose normalized form is empty yields no record
\* at all; a candidate whose non-empty normalized form equals that of the
\* query yields exactly one record, of match_type exact and score 100, and
\* no fuzzy or token record; any other candidate yields at most one fuzzy
\* and at most one token record, possibly both.
C16_ExactOrFuzzyTokenNonEmpty ==
    pc = "matched" =>
        IF sanctions_df[1].normalized = <<>>
        THEN screening_result.matches = <<>>
        ELSE IF screening_result.processed_query.normalized
                = sanctions_df[1].normalized
        THEN OneExactRecord
        ELSE FuzzyAndTokenOnly

\* an equal, non-empty normalized form gave the single exact record
C16_Witness ==
    /\ pc = "matched"
    /\ sanctions_df[1].normalized # <<>>
    /\ screening_result.processed_query.normalized = sanctions_df[1].normalized
    /\ query # sanctions_df[1].name
    /\ OneExactRecord

\* a fuzzy and a token record were emitted for the same candidate
C16_BothRecords ==
    /\ pc = "matched"
    /\ RecordsOfType("fuzzy") # {}
    /\ RecordsOfType("token") # {}

(***************************************************************************)
(* Properties of what screen_name returns, read in the states with         *)
(* pc = "screened"                                                         *)
(***************************************************************************)

\* the priority of each list, 50 for a list that is not in the table
PriorityOfList(source) ==
    IF source \in {"OFAC", "UN", "HMT", "EU"}
    THEN [OFAC |-> 100, UN |-> 90, HMT |-> 80, EU |-> 70][source]
    ELSE 50

\* score x priority / 100 x (1.2 for an exact match), at most 100
ExpectedRisk(match) ==
    LET product == (match.score * PriorityOfList(match.source)
                    * (IF match.match_type = "exact" THEN 12 ELSE 10)) \div 1000
    IN  IF product > Pts(100) THEN Pts(100) ELSE product

\* C17: every match in a screen_name result has risk_score = min(100, score
\* x priority / 100 x (1.2 if the match is exact, else 1)), with priority
\* OFAC 100, UN 90, HMT 80, EU 70 and 50 for any other source; risk_score
\* lies between 0 and 100; and risk_level is the classification of
\* risk_score: HIGH from 85, MEDIUM from 70, LOW from 60, NONE below.
C17_RiskScoreFormula ==
    pc = "screened" =>
        \A i \in 1..Len(screening_result.matches) :
            LET match == screening_result.matches[i]
            IN  /\ match.risk_score = ExpectedRisk(match)
                /\ match.risk_score >= 0
                /\ match.risk_score <= Pts(100)
                /\ match.risk_level = "HIGH" <=> match.risk_score >= Pts(85)
                /\ match.risk_level = "MEDIUM" <=>
                       (match.risk_score >= Pts(70) /\ match.risk_score < Pts(85))
                /\ match.risk_level = "LOW" <=>
                       (match.risk_score >= Pts(60) /\ match.risk_score < Pts(70))
                /\ match.risk_level = "NONE" <=> match.risk_score < Pts(60)
                /\ match.risk_level \in {"HIGH", "MEDIUM", "LOW", "NONE"}

\* one result holds an exact match whose product of 120 was capped at 100
\* and a match of a lower level on another list
C17_Witness ==
    /\ pc = "screened"
    /\ \E i, j \in 1..Len(screening_result.matches) :
           /\ screening_result.matches[i].match_type = "exact"
           /\ screening_result.matches[i].source = "OFAC"
           /\ screening_result.matches[i].risk_score = Pts(100)
           /\ screening_result.matches[j].source # "OFAC"
           /\ screening_result.matches[j].risk_level # "HIGH"

\* a match on a list that is not in the priority table was scored
C17_UnlistedSource ==
    /\ pc = "screened"
    /\ \E i \in 1..Len(screening_result.matches) :
           /\ screening_result.matches[i].source \notin {"OFAC", "UN", "HMT", "EU"}
           /\ screening_result.matches[i].risk_score
              < screening_result.matches[i].score

\* the place of a match in the scan: the row it came from, and within the
\* row the fuzzy record before the token record
ScanPosition(match) ==
    LET row == CHOOSE r \in 1..Len(sanctions_df) :
                   /\ sanctions_df[r].name = match.target_name
                   /\ sanctions_df[r].source = match.source
                   /\ sanctions_df[r].list_type = match.list_type
    IN  2 * row + (IF match.match_type = "token" THEN 1 ELSE 0)

\* the tuple the matches are ranked by
RankTuple(match) ==
    <<match.risk_score,
      IF match.source \in {"OFAC", "UN", "HMT", "EU"}
      THEN PriorityOfList(match.source) ELSE 0,
      match.score>>

\* C18: the match list of a screen_name result is sorted in descending
\* order of the tuple (risk_score, list priority, raw score), and matches
\* with equal tuples keep the order in which the scan produced them.
C18_RankedStable ==
    pc = "screened" =>
        \A i, j \in 1..Len(screening_result.matches) :
            i < j =>
                LET a == RankTuple(screening_result.matches[i])
                    b == RankTuple(screening_result.matches[j])
                IN  /\ \/ a[1] > b[1]
                       \/ a[1] = b[1] /\ a[2] > b[2]
                       \/ a[1] = b[1] /\ a[2] = b[2] /\ a[3] >= b[3]
                    /\ a = b => ScanPosition(screening_result.matches[i])
                                < ScanPosition(screening_result.matches[j])

\* a result with two matches of equal tuples that come from different rows
C18_Witness ==
    /\ pc = "screened"
    /\ \E i, j \in 1..Len(screening_result.matches) :
           /\ i < j
           /\ RankTuple(screening_result.matches[i])
              = RankTuple(screening_result.matches[j])
           /\ screening_result.matches[i].target_name
              # screening_result.matches[j].target_name

\* a match that was scanned later is ranked first
C18_Reordered ==
    /\ pc = "screened"
    /\ \E i, j \in 1..Len(screening_result.matches) :
           /\ i < j
           /\ ScanPosition(screening_result.matches[i])
              > ScanPosition(screening_result.matches[j])

(***************************************************************************)
(* MatchScorer.create_match_summary on its own: a list of scored matches,  *)
(* with risk scores at and next to the thresholds                          *)
(***************************************************************************)

\* longest list of matches that is summarised
MaxSummarised == 3

RiskScores ==
    {0,
     Pts(LOW_RISK_THRESHOLD) - 1,    Pts(LOW_RISK_THRESHOLD),
     Pts(MEDIUM_RISK_THRESHOLD) - 1, Pts(MEDIUM_RISK_THRESHOLD),
     Pts(HIGH_RISK_THRESHOLD) - 1,   Pts(HIGH_RISK_THRESHOLD),
     Pts(100)}

ScoredLists ==
    UNION {[1..n -> {[risk_score |-> r] : r \in RiskScores}] :
           n \in 0..MaxSummarised}

SummaryInit ==
    /\ pc = "scored"
    /\ query = <<>>
    /\ sanctions_df = <<>>
    /\ similarity = <<>>
    /\ screening_result \in {[matches |-> matches] : matches \in ScoredLists}
    /\ rules_result = EmptyDict
    /\ flagged_result = EmptyDict
    /\ discarded = <<>>
    /\ names = <<>>
    /\ results = <<>>
    /\ returned_matches = <<>>
    /\ seen = <<>>
    /\ load_status = "none"
    /\ data_is_none = TRUE

\* self.scorer.create_match_summary(ranked_matches)
CreateMatchSummary ==
    /\ pc = "scored"
    /\ pc' = "summarised"
    /\ screening_result' =
           [matches |-> screening_result.matches,
            summary |-> create_match_summary(screening_result.matches)]
    /\ UNCHANGED <<query, sanctions_df, similarity, rules_result,
                   flagged_result, discarded, names, results>>
    /\ UNCHANGED server_vars

SummaryNext == CreateMatchSummary

SummarySpec == SummaryInit /\ [][SummaryNext]_vars

\* the number of summarised matches whose risk_score lies in low..(high - 1)
ScoresWithin(low, high) ==
    Cardinality({i \in 1..Len(screening_result.matches) :
        /\ screening_result.matches[i].risk_score >= low
        /\ screening_result.matches[i].risk_score < high})

\* some match has the highest score and this score satisfies Test
HighestSatisfies(Test(_)) ==
    \E i \in 1..Len(screening_result.matches) :
        /\ \A j \in 1..Len(screening_result.matches) :
               screening_result.matches[i].risk_score
               >= screening_result.matches[j].risk_score
        /\ Test(screening_result.matches[i].risk_score)

\* C19: create_match_summary of a non-empty list sets requires_review iff
\* the highest risk_score is at least 85 and can_auto_clear iff it is below
\* 60, so never both, and its HIGH, MEDIUM and LOW counts are the numbers of
\* matches whose risk_score classifies to that level; for the empty list
\* requires_review is false and can_auto_clear is true.
C19_SummaryFlagsAndCounts ==
    pc = "summarised" =>
        IF screening_result.matches = <<>>
        THEN /\ ~screening_result.summary.requires_review
             /\ screening_result.summary.can_auto_clear
        ELSE /\ screening_result.summary.requires_review
                <=> HighestSatisfies(LAMBDA s : s >= Pts(85))
             /\ screening_result.summary.can_auto_clear
                <=> HighestSatisfies(LAMBDA s : s < Pts(60))
             /\ ~(/\ screening_result.summary.requires_review
                  /\ screening_result.summary.can_auto_clear)
             /\ screening_result.summary.risk_breakdown.HIGH
                = ScoresWithin(Pts(85), Pts(100) + 1)
             /\ screening_result.summary.risk_breakdown.MEDIUM
                = ScoresWithin(Pts(70), Pts(85))
             /\ screening_result.summary.risk_breakdown.LOW
                = ScoresWithin(Pts(60), Pts(70))

\* a list whose highest score is exactly 85 and that holds matches of two
\* more levels was summarised
C19_Witness ==
    /\ pc = "summarised"
    /\ HighestSatisfies(LAMBDA s : s = Pts(85))
    /\ screening_result.summary.requires_review
    /\ screening_result.summary.risk_breakdown.HIGH = 1
    /\ screening_result.summary.risk_breakdown.MEDIUM = 1
    /\ screening_result.summary.risk_breakdown.LOW = 1

\* a non-empty list whose scores are all below 60 can be cleared
C19_AllBelowLow ==
    /\ pc = "summarised"
    /\ screening_result.matches # <<>>
    /\ screening_result.summary.can_auto_clear

(***************************************************************************)
(* interface/api/endpoints.py: screen_batch, one step for each turn of its *)
(* loop over request.names                                                 *)
(***************************************************************************)

\* longest batch
MaxBatch == 2

BatchNames == {<<"B", "o", "b">>, <<"J", "o", "h", "n", " ", "S", "m", "i", "t", "h">>, <<"O", "s", "a", "m", "a", " ", "b", "i", "n", " ", "L", "a", "d", "e", "n">>}

\* BatchScreeningRequest.names holds at least one name
Batches == UNION {[1..n -> BatchNames] : n \in 1..MaxBatch}

\* the fields of a match that a response carries
ResponseMatch(match) ==
    [target_name |-> Get(match, "target_name", <<>>),
     source      |-> Get(match, "source", ""),
     list_type   |-> Get(match, "list_type", ""),
     score       |-> Get(match, "score", 0),
     risk_score  |-> Get(match, "risk_score", 0),
     risk_level  |-> Get(match, "risk_level", "NONE"),
     confidence  |-> Get(match, "confidence", "LOW"),
     match_type  |-> Get(match, "match_type", "unknown")]

\* ScreeningResponse(...), without the screening id and the clock readings
ScreeningResponse(name, final_result) ==
    [query    |-> name,
     matches  |-> [i \in 1..Len(Get(final_result, "matches", <<>>)) |->
                      ResponseMatch(final_result.matches[i])],
     decision |-> Get(final_result, "decision", EmptyDict),
     summary  |-> Get(final_result, "summary", EmptyDict)]

\* a batch request arrives; the similarity library is a function, and what
\* it returns for a row is taken to be the same for every name of the batch
ReceiveBatch ==
    /\ pc = "idle"
    /\ names' \in Batches
    /\ similarity' \in [1..Len(sanctions_df) -> LibraryReplies]
    /\ results' = <<>>
    /\ pc' = "batch"
    /\ UNCHANGED <<query, sanctions_df, screening_result, rules_result,
                   flagged_result, discarded>>
    /\ UNCHANGED server_vars

\* one turn of `for name in request.names`; an exception leaves the loop and
\* the request is answered with status 500
ScreenBatchName ==
    /\ pc = "batch"
    /\ Len(results) < Len(names)
    /\ \E name \in {names[Len(results) + 1]} :
         \E screened \in {screen_name(name, sanctions_df, similarity)} :
          \E r \in {process_screening_result(screened)} :
            /\ query' = name
            /\ screening_result' = r.input
            /\ discarded' = r.discarded
            /\ IF r.raised
               THEN /\ pc' = "batch_failed"
                    /\ UNCHANGED <<rules_result, flagged_result, results>>
               ELSE /\ pc' = "batch"
                    /\ rules_result' = r.flagged
                    /\ flagged_result' = r.output
                    /\ results' = Append(results, ScreeningResponse(name, r.output))
    /\ UNCHANGED <<sanctions_df, similarity, names>>
    /\ UNCHANGED server_vars

\* return BatchScreeningResponse(results=results, ...)
ReturnBatch ==
    /\ pc = "batch"
    /\ Len(results) = Len(names)
    /\ pc' = "batch_done"
    /\ UNCHANGED <<query, sanctions_df, similarity, screening_result,
                   rules_result, flagged_result, discarded, names, results>>
    /\ UNCHANGED server_vars

\* the batch request is answered; the next one starts
NextBatch ==
    /\ pc \in {"batch_done", "batch_failed"}
    /\ pc' = "idle"
    /\ query' = <<>>
    /\ similarity' = <<>>
    /\ screening_result' = EmptyDict
    /\ rules_result' = EmptyDict
    /\ flagged_result' = EmptyDict
    /\ discarded' = <<>>
    /\ names' = <<>>
    /\ results' = <<>>
    /\ UNCHANGED sanctions_df
    /\ UNCHANGED server_vars

BatchNext ==
    LoadSanctions \/ ReceiveBatch \/ ScreenBatchName \/ ReturnBatch \/ NextBatch

BatchSpec == Init /\ [][BatchNext]_vars

\* C20: batch screening returns exactly one result for each input name, in
\* input order, and each of them equals what a single screening of that name
\* against the same candidate list returns (screen_name, then
\* process_screening_result, as the single request does), whatever the other
\* names of the batch are.
C20_BatchEqualsSingle ==
    pc \in {"batch_done", "batch_failed"} =>
        /\ pc = "batch_done"
        /\ Len(results) = Len(names)
        /\ \A i \in 1..Len(names) :
               \E screened \in {screen_name(names[i], sanctions_df, similarity)} :
                   \E single \in {process_screening_result(screened)} :
                       /\ ~single.raised
                       /\ results[i] = ScreeningResponse(names[i], single.output)

\* a batch of different names was answered
C20_BatchAnswered ==
    /\ pc = "batch_done"
    /\ Len(names) = MaxBatch
    /\ names[1] # names[2]
    /\ results[1].decision.action # results[2].decision.action

(***************************************************************************)
(* The same name screened twice against the same candidate list, with      *)
(* process_screening_result run on the first result in between             *)
(***************************************************************************)

\* longest candidate list screened twice
MaxRepeated == 2

RepeatQueries == {<<"B", "o", "b">>, <<"N", "e", "w", " ", "B", "a", "n", "k">>, <<"O", "l", "d">>, <<"O", "s", "a", "m", "a", " ", "b", "i", "n", " ", "L", "a", "d", "e", "n">>}

RepeatRows ==
    {row \in CandidateRows :
        row.name \in {<<"B", "o", "b">>, <<"O", "l", "d", " ", "B", "a", "n", "k">>, <<"O", "s", "a", "m", "a", " ", "b", "i", "n", " ", "L", "a", "d", "e", "n">>, <<"O", "s", "a", "m", "a", " ", "L", "a", "d", "e", "n">>}}

RepeatLists ==
    UNION {{rows \in [1..n -> RepeatRows] :
               \A i, j \in 1..n : i # j => rows[i] # rows[j]} :
           n \in 0..MaxRepeated}

\* the sanctions data is loaded and the library is a function: it returns
\* the same for the same pair of strings
RepeatInit ==
    /\ pc = "idle"
    /\ query \in RepeatQueries
    /\ \E rows \in RepeatLists :
           /\ sanctions_df = process_dataframe(rows)
           /\ similarity \in [1..Len(rows) -> LibraryReplies]
    /\ screening_result = EmptyDict
    /\ rules_result = EmptyDict
    /\ flagged_result = EmptyDict
    /\ discarded = <<>>
    /\ names = <<>>
    /\ results = <<>>
    /\ returned_matches = <<>>
    /\ seen = <<>>
    /\ load_status = "loaded"
    /\ data_is_none = FALSE

\* first = matching_engine.screen_name(name, sanctions_data)
ScreenNameFirst ==
    /\ pc = "idle"
    /\ \E first \in {screen_name(query, sanctions_df, similarity)} :
           /\ screening_result' = first
           /\ returned_matches' = <<first.matches>>
    /\ pc' = "screened"
    /\ UNCHANGED <<query, sanctions_df, similarity, rules_result,
                   flagged_result, discarded, names, results, seen, load_status,
                   data_is_none>>

\* a second call that hands out the dictionary of the first call again
ScreenNameAgain_same_dict ==
    /\ pc \in {"flagged", "raised"}
    /\ returned_matches' = Append(returned_matches, screening_result.matches)
    /\ pc' = "rescreened"
    /\ UNCHANGED <<query, sanctions_df, similarity, screening_result,
                   rules_result, flagged_result, discarded, names, results,
                   seen, load_status, data_is_none>>

\* second = matching_engine.screen_name(name, sanctions_data), after
\* process_screening_result(first) returned or raised
ScreenNameAgain ==
    /\ pc \in {"flagged", "raised"}
    /\ \E second \in {screen_name(query, sanctions_df, similarity)} :
           /\ screening_result' = second
           /\ returned_matches' = Append(returned_matches, second.matches)
    /\ pc' = "rescreened"
    /\ UNCHANGED <<query, sanctions_df, similarity, rules_result,
                   flagged_result, discarded, names, results, seen, load_status,
                   data_is_none>>

RepeatNext == ScreenNameFirst \/ ProcessScreeningResult \/ ScreenNameAgain

RepeatSpec == RepeatInit /\ [][RepeatNext]_vars

C23_ShortQueryDropsAll ==
    (pc \in {"flagged", "raised"} /\ Len(Strip(query)) <= 3) =>
        /\ surviving = <<>>
        /\ \E produced \in {screen_name(query, sanctions_df, similarity)} :
               screening_result.filtered_count = Len(produced.matches)

\* a query of three characters produced several matches, of which a high
\* one, and all of them were dropped
C23_Witness ==
    /\ pc \in {"flagged", "raised"}
    /\ Len(Strip(query)) = 3
    /\ surviving = <<>>
    /\ screening_result.filtered_count > 1
    /\ screening_result.summary.highest_risk = "HIGH"

(***************************************************************************)
(* The token matcher on its own: match_against_entry hands it the tokens   *)
(* of the processed query and of one list entry and stores the reply under *)
(* results['token'].                                                       *)
(***************************************************************************)
MaxQueryTokens == 3

Tokens == {<<"b", "o", "b">>, <<"r", "o", "b">>, <<"o", "s", "a", "m", "a">>, <<"u", "s", "a", "m", "a">>, <<"j", "o", "h", "n">>}

QueryTokenLists == UNION {[1..n -> Tokens] : n \in 0..MaxQueryTokens}

TargetTokenLists ==
    {<<>>, <<<<"b", "o", "b">>>>, <<<<"b", "o", "b">>, <<"u", "s", "a", "m", "a">>>>, <<<<"u", "s", "a", "m", "a">>, <<"b", "o", "b">>>>,
     <<<<"r", "o", "b">>, <<"b", "o", "b">>>>, <<<<"o", "s", "a", "m", "a">>, <<"l", "a", "d", "e", "n">>>>}

TokenInit ==
    /\ pc = "tokens"
    /\ \E query_tokens \in QueryTokenLists, target_tokens \in TargetTokenLists :
           screening_result = [query_tokens  |-> query_tokens,
                               target_tokens |-> target_tokens]
    /\ query = <<>>
    /\ sanctions_df = <<>>
    /\ similarity = <<>>
    /\ rules_result = EmptyDict
    /\ flagged_result = EmptyDict
    /\ discarded = <<>>
    /\ names = <<>>
    /\ results = EmptyDict
    /\ returned_matches = <<>>
    /\ seen = <<>>
    /\ load_status = "loaded"
    /\ data_is_none = FALSE

\* results['token'] = self.token_matcher.match(query_tokens, entry_tokens)
TokenMatch ==
    /\ pc = "tokens"
    /\ results' = [token |-> TokenMatcher_match(screening_result.query_tokens,
                                                screening_result.target_tokens)]
    /\ pc' = "token_matched"
    /\ UNCHANGED <<query, sanctions_df, similarity, screening_result,
                   rules_result, flagged_result, discarded, names>>
    /\ UNCHANGED server_vars

\* if token_result['is_match']: the match is emitted with confidence MEDIUM
\* (the fields copied from the list entry are left out: the filter does not
\* read them) and later passes through _filter_weak_partial_matches
FilterTokenMatch ==
    /\ pc = "token_matched"
    /\ results.token.is_match
    /\ \E r \in {filter_weak_partial_matches(
                      <<results.token @@ [confidence |-> "MEDIUM"]>>, query)} :
           /\ screening_result' =
                  [matches |-> r.kept] @@ screening_result
           /\ discarded' = r.discarded
    /\ pc' = "token_filtered"
    /\ UNCHANGED <<query, sanctions_df, similarity, rules_result,
                   flagged_result, names, results>>
    /\ UNCHANGED server_vars

TokenNext == TokenMatch \/ FilterTokenMatch

TokenSpec == TokenInit /\ [][TokenNext]_vars

\* the best ratio of one query token against the target tokens
BestRatio(q_token, target_tokens) ==
    LET ratios == {levenshtein_ratio(q_token, target_tokens[j]) :
                       j \in 1..Len(target_tokens)}
    IN  CHOOSE best \in ratios : \A other \in ratios : other <= best

\* the positions of the query tokens whose best ratio reaches 60
AcceptedTokens(query_tokens, target_tokens) ==
    {i \in 1..Len(query_tokens) :
         BestRatio(query_tokens[i], target_tokens) >= Pts(60)}

RECURSIVE SumOfBest(_, _, _)
SumOfBest(accepted, query_tokens, target_tokens) ==
    IF accepted = {} THEN 0
    ELSE LET i == CHOOSE i \in accepted : TRUE
         IN  BestRatio(query_tokens[i], target_tokens)
             + SumOfBest(accepted \ {i}, query_tokens, target_tokens)

TokenFormula(token, query_tokens, target_tokens, accepted) ==
    /\ token.score =
           SumOfBest(accepted, query_tokens, target_tokens)
               \div Len(query_tokens)
    /\ token.details.match_ratio =
           (1000 * Cardinality(accepted)) \div Len(query_tokens)
    /\ Len(token.details.matched_tokens) = Cardinality(accepted)
    /\ token.is_match <=> token.score >= Pts(60)

C24_EmptySide ==
    /\ pc = "token_matched"
    /\ screening_result.query_tokens # <<>>
    /\ screening_result.target_tokens = <<>>
    /\ results.token.score = 0
    /\ ~results.token.is_match

\* C25: every match in the result of screen_name has a risk_score of at
\* least 60 and a risk_level of LOW, MEDIUM or HIGH, so the summary's
\* can_auto_clear is true exactly when the returned list is empty, and
\* low_risk_clear is the applied rule only for a screening that found no match
C25_ReturnedMatchesSignificant ==
    /\ pc = "screened" =>
           /\ \A i \in 1..Len(screening_result.matches) :
                  /\ screening_result.matches[i].risk_score >= Pts(60)
                  /\ screening_result.matches[i].risk_level
                         \in {"LOW", "MEDIUM", "HIGH"}
           /\ screening_result.summary.can_auto_clear
                  <=> screening_result.matches = <<>>
    /\ (pc = "flagged" /\ rules_result.applied_rule = "low_risk_clear") =>
           \E produced \in {screen_name(query, sanctions_df, similarity)} :
               produced.matches = <<>>

\* a returned match whose risk_score is exactly 60: it is LOW and the
\* screening cannot be cleared automatically
C25_Witness ==
    /\ pc = "screened"
    /\ \E i \in 1..Len(screening_result.matches) :
           /\ screening_result.matches[i].risk_score = Pts(60)
           /\ screening_result.matches[i].risk_level = "LOW"
    /\ screening_result.summary.highest_score = Pts(60)
    /\ ~screening_result.summary.can_auto_clear

\* a name that was screened against a non-empty list, matched nothing and
\* was cleared by low_risk_clear
C25_ClearedWithoutMatch ==
    /\ pc = "flagged"
    /\ sanctions_df # <<>>
    /\ "processed_query" \in DOMAIN screening_result
    /\ rules_result.applied_rule = "low_risk_clear"
    /\ final_decision.action = "AUTO_CLEAR"

C26_ReviewByFallback ==
    /\ pc = "flagged"
    /\ final_decision.action = "MANUAL_REVIEW"
    /\ rules_result.applied_rule = "common_name_filter"
    /\ "timestamp" \notin DOMAIN rules_result.decision

\* C27: every token match that is emitted has a match_ratio of at least
\* 0.6, so the weak-partial filter never removes an emitted token match
C27_TokenMatchNeverWeak ==
    /\ (pc \in {"token_matched", "token_filtered"} /\ results.token.is_match) =>
           results.token.details.match_ratio >= 600
    /\ pc = "token_filtered" =>
           /\ discarded = <<>>
           /\ Len(screening_result.matches) = 1
           /\ screening_result.matches[1].details = results.token.details
           /\ "filtered" \notin DOMAIN screening_result.matches[1]

\* an emitted token match with a score below 70 that the filter keeps
\* because two of its three query tokens found a partner
C27_Witness ==
    /\ pc = "token_filtered"
    /\ Len(screening_result.matches) = 1
    /\ screening_result.matches[1].match_type = "token"
    /\ screening_result.matches[1].score < Pts(70)
    /\ screening_result.matches[1].details.match_ratio = 666
    /\ Len(screening_result.query_tokens) = 3

(***************************************************************************)
(* The name processor on its own, on names of up to MaxWords words.        *)
(***************************************************************************)
MaxWords == 2

NameWords ==
    {<<"T", "h", "e">>, <<"b", "i", "n">>, <<"E", "l">>, <<"B", "e", "n">>, <<"u", "l">>, <<"A", "l">>, <<"B", "o", "b">>, <<"L", "a", "d", "e", "n">>,
     <<"D", "r">>, <<"A", "b", "d">>}

ProcessNames ==
    {Join(words, <<" ">>) :
         words \in UNION {[1..n -> NameWords] : n \in 0..MaxWords}}

ProcessInit ==
    /\ pc = "named"
    /\ query \in ProcessNames
    /\ sanctions_df = <<>>
    /\ similarity = <<>>
    /\ screening_result = EmptyDict
    /\ rules_result = EmptyDict
    /\ flagged_result = EmptyDict
    /\ discarded = <<>>
    /\ names = <<>>
    /\ results = <<>>
    /\ returned_matches = <<>>
    /\ seen = <<>>
    /\ load_status = "none"
    /\ data_is_none = TRUE

\* query_processed = self.processor.process_single(query_name)
ProcessSingle ==
    /\ pc = "named"
    /\ screening_result' = [processed_query |-> process_single(query)]
    /\ pc' = "processed"
    /\ UNCHANGED <<query, sanctions_df, similarity, rules_result,
                   flagged_result, discarded, names, results>>
    /\ UNCHANGED server_vars

ProcessNext == ProcessSingle

ProcessSpec == ProcessInit /\ [][ProcessNext]_vars

\* the connector words the spec lists
ConnectorWords ==
    {<<"a", "n", "d">>, <<"o", "r">>, <<"t", "h", "e">>, <<"o", "f">>, <<"b", "i", "n">>, <<"i", "b", "n">>, <<"a", "b", "u">>, <<"a", "l">>}

C28_ListedWordsRemoved ==
    (pc = "processed"
        /\ \A word \in ToSet(Split(Lower(query))) :
               word \notin {<<"e", "l">>, <<"u", "l">>, <<"b", "e", "n">>}) =>
        /\ \A word \in ToSet(Split(screening_result.processed_query.normalized)) :
               word \notin ConnectorWords
        /\ \A token \in ToSet(screening_result.processed_query.tokens) :
               token \notin ConnectorWords

(***************************************************************************)
(* interface/api/endpoints.py: the running server.  startup_event runs     *)
(* before the first request; /screen, /screen/batch and the reload task    *)
(* are coroutines on one event loop.                                       *)
(***************************************************************************)

\* the row of the candidate rows with this name and source
Row(name, source) ==
    CHOOSE row \in CandidateRows : row.name = name /\ row.source = source

\* what list_manager.load_all() can return, the frames of the loaders put
\* one after the other
ServerLoads ==
    {<<>>,
     <<Row(<<"B", "o", "b">>, "OFAC")>>,
     <<Row(<<"O", "s", "a", "m", "a", " ", "b", "i", "n", " ", "L", "a", "d", "e", "n">>, "OFAC")>>,
     <<Row(<<"J", "o", "h", "n", " ", "S", "m", "i", "t", "h">>, "INTERPOL"), Row(<<"J", "o", "h", "n", " ", "S", "m", "i", "t", "h">>, "EU")>>}

\* the step of a load that raises, or "nothing"
LoadOutcomes == {"nothing", "loading", "consolidating", "preprocessing"}

\* ListManager.consolidate: of the rows with one name the first is kept
consolidate(list_data) ==
    LET RECURSIVE F(_, _)
        F(i, combined) ==
            IF i > Len(list_data) THEN combined
            ELSE IF \E j \in 1..Len(combined) :
                       combined[j].name = list_data[i].name
                 THEN F(i + 1, combined)
                 ELSE F(i + 1, Append(combined, list_data[i]))
    IN  IF list_data = <<>> THEN <<>> ELSE F(1, <<>>)

\* a startup whose except branch only logs the error
startup_event_no_fallback(list_data, failing) ==
    CASE failing = "nothing" ->
             [sanctions_data |-> process_dataframe(consolidate(list_data)),
              is_none        |-> FALSE,
              logged         |-> "loaded"]
      [] failing = "preprocessing" ->
             [sanctions_data |-> consolidate(list_data),
              is_none        |-> FALSE,
              logged         |-> "startup_failed"]
      [] OTHER ->
             [sanctions_data |-> <<>>,
              is_none        |-> TRUE,
              logged         |-> "startup_failed"]

\* startup_event: the global after the event, and what was logged
startup_event(list_data, failing) ==
    IF failing = "nothing"
    THEN [sanctions_data |-> process_dataframe(consolidate(list_data)),
          is_none        |-> FALSE,
          logged         |-> "loaded"]
    ELSE [sanctions_data |-> process_dataframe(consolidate(<<>>)),
          is_none        |-> FALSE,
          logged         |-> "startup_failed"]

\* a reload that assigns the global twice, as startup_event does
reload_sanctions_data_two_assignments(current, current_is_none, list_data, failing) ==
    CASE failing = "nothing" ->
             [sanctions_data |-> process_dataframe(consolidate(list_data)),
              is_none        |-> FALSE,
              logged         |-> "reloaded"]
      [] failing = "preprocessing" ->
             [sanctions_data |-> consolidate(list_data),
              is_none        |-> FALSE,
              logged         |-> "reload_failed"]
      [] OTHER ->
             [sanctions_data |-> current,
              is_none        |-> current_is_none,
              logged         |-> "reload_failed"]

\* reload_sanctions_data: the global after the task, and what was logged
reload_sanctions_data(current, current_is_none, list_data, failing) ==
    IF failing = "nothing"
    THEN [sanctions_data |-> process_dataframe(consolidate(list_data)),
          is_none        |-> FALSE,
          logged         |-> "reloaded"]
    ELSE [sanctions_data |-> current,
          is_none        |-> current_is_none,
          logged         |-> "reload_failed"]

\* an event loop that lets a task run between the statements of a handler
EventLoopFree_threads == pc # "boot"

\* the handlers and the reload task are coroutines without an await: each
\* runs from its first to its last statement before another one starts
EventLoopFree == pc = "idle"

ServerInit ==
    /\ pc = "boot"
    /\ query = <<>>
    /\ sanctions_df = <<>>
    /\ similarity = <<>>
    /\ screening_result = EmptyDict
    /\ rules_result = EmptyDict
    /\ flagged_result = EmptyDict
    /\ discarded = <<>>
    /\ names = <<>>
    /\ results = <<>>
    /\ returned_matches = <<>>
    /\ seen = <<>>
    /\ load_status = "none"
    /\ data_is_none = TRUE

\* startup_event
StartupEvent ==
    /\ pc = "boot"
    /\ \E list_data \in ServerLoads, failing \in LoadOutcomes :
         \E started \in {startup_event(list_data, failing)} :
            /\ sanctions_df' = started.sanctions_data
            /\ data_is_none' = started.is_none
            /\ load_status' = started.logged
            /\ similarity' \in [1..Len(started.sanctions_data) -> LibraryReplies]
    /\ pc' = "idle"
    /\ UNCHANGED <<query, screening_result, rules_result, flagged_result,
                   discarded, names, results, returned_matches, seen>>

\* reload_sanctions_data, the background task of /admin/refresh-data
ReloadSanctionsData ==
    /\ EventLoopFree
    /\ \E list_data \in ServerLoads, failing \in LoadOutcomes :
         \E reloaded \in {reload_sanctions_data(sanctions_df, data_is_none,
                                                list_data, failing)} :
            /\ sanctions_df' = reloaded.sanctions_data
            /\ data_is_none' = reloaded.is_none
            /\ load_status' = reloaded.logged
            /\ IF reloaded.sanctions_data = sanctions_df
               THEN UNCHANGED similarity
               ELSE similarity' \in
                        [1..Len(reloaded.sanctions_data) -> LibraryReplies]
    /\ UNCHANGED <<pc, query, screening_result, rules_result, flagged_result,
                   discarded, names, results, returned_matches, seen>>

\* POST /screen, from its first to its last statement
ScreenRequest ==
    /\ pc = "idle"
    /\ \E name \in BatchNames :
         /\ query' = name
         /\ IF data_is_none
            THEN /\ pc' = "unavailable"
                 /\ UNCHANGED <<screening_result, rules_result, flagged_result,
                                discarded, results, seen>>
            ELSE \E screened \in {screen_name(name, sanctions_df, similarity)} :
                  \E r \in {process_screening_result(screened)} :
                    /\ seen' = <<sanctions_df>>
                    /\ screening_result' = r.input
                    /\ discarded' = r.discarded
                    /\ IF r.raised
                       THEN /\ pc' = "request_failed"
                            /\ UNCHANGED <<rules_result, flagged_result, results>>
                       ELSE /\ pc' = "answered"
                            /\ rules_result' = r.flagged
                            /\ flagged_result' = r.output
                            /\ results' = <<ScreeningResponse(name, r.output)>>
    /\ UNCHANGED <<sanctions_df, similarity, names, returned_matches,
                   load_status, data_is_none>>

\* POST /screen/batch up to the first turn of its loop
BatchRequest ==
    /\ pc = "idle"
    /\ names' \in Batches
    /\ pc' = IF data_is_none THEN "unavailable" ELSE "batch"
    /\ results' = <<>>
    /\ seen' = <<>>
    /\ UNCHANGED <<query, sanctions_df, similarity, screening_result,
                   rules_result, flagged_result, discarded, returned_matches,
                   load_status, data_is_none>>

\* one turn of `for name in request.names`: the turn reads the global
\* sanctions_data, and seen records what it read
BatchTurn ==
    /\ pc = "batch"
    /\ Len(results) < Len(names)
    /\ seen' = Append(seen, sanctions_df)
    /\ \E name \in {names[Len(results) + 1]} :
         \E screened \in {screen_name(name, sanctions_df, similarity)} :
          \E r \in {process_screening_result(screened)} :
            /\ query' = name
            /\ screening_result' = r.input
            /\ discarded' = r.discarded
            /\ IF r.raised
               THEN /\ pc' = "batch_failed"
                    /\ UNCHANGED <<rules_result, flagged_result, results>>
               ELSE /\ pc' = "batch"
                    /\ rules_result' = r.flagged
                    /\ flagged_result' = r.output
                    /\ results' = Append(results, ScreeningResponse(name, r.output))
    /\ UNCHANGED <<sanctions_df, similarity, names, returned_matches,
                   load_status, data_is_none>>

\* return BatchScreeningResponse(results=results, ...)
BatchReturn ==
    /\ pc = "batch"
    /\ Len(results) = Len(names)
    /\ pc' = "batch_done"
    /\ UNCHANGED <<query, sanctions_df, similarity, screening_result,
                   rules_result, flagged_result, discarded, names, results>>
    /\ UNCHANGED server_vars

\* the response is sent and the event loop is free again
Respond ==
    /\ pc \in {"answered", "request_failed", "unavailable",
               "batch_done", "batch_failed"}
    /\ pc' = "idle"
    /\ query' = <<>>
    /\ screening_result' = EmptyDict
    /\ rules_result' = EmptyDict
    /\ flagged_result' = EmptyDict
    /\ discarded' = <<>>
    /\ names' = <<>>
    /\ results' = <<>>
    /\ seen' = <<>>
    /\ UNCHANGED <<sanctions_df, similarity, returned_matches, load_status,
                   data_is_none>>

ServerNext ==
    \/ StartupEvent
    \/ ReloadSanctionsData
    \/ ScreenRequest
    \/ BatchRequest
    \/ BatchTurn
    \/ BatchReturn
    \/ Respond

ServerSpec == ServerInit /\ [][ServerNext]_vars

\* a list whose rows all went through process_single
FullyProcessed(df) ==
    \A k \in 1..Len(df) :
        /\ {"original", "cleaned", "normalized", "tokens", "variants"}
               \subseteq DOMAIN df[k]
        /\ df[k].normalized = process_single(df[k].name).normalized

\* C21: a screening in flight never reads a partially built list while the
\* reload task replaces the global list, and all names of one batch request
\* are screened against one and the same list
C21_OneSnapshotPerRequest ==
    /\ \A i \in 1..Len(seen) : FullyProcessed(seen[i])
    /\ \A i, j \in 1..Len(seen) : seen[i] = seen[j]
    /\ pc \in {"batch", "batch_done"} => Len(seen) = Len(results)

\* a batch of at least two names answered from a list that a reload
\* installed
C21_Witness ==
    /\ pc = "batch_done"
    /\ load_status = "reloaded"
    /\ Len(seen) >= 2
    /\ seen[1] # <<>>
    /\ seen[2] = sanctions_df

\* C29: a reload that fails while loading, consolidating or preprocessing
\* leaves the global list as it was, and the reload replaces the list only
\* by a completely processed new list
C29_FailedReloadKeepsList ==
    [][/\ load_status' = "reload_failed" =>
              /\ sanctions_df' = sanctions_df
              /\ data_is_none' = data_is_none
       /\ (pc # "boot" /\ sanctions_df' # sanctions_df) =>
              /\ load_status' = "reloaded"
              /\ FullyProcessed(sanctions_df')]_vars

\* a reload failed and the list loaded before is still in place
C29_Witness ==
    /\ pc = "idle"
    /\ load_status = "reload_failed"
    /\ sanctions_df # <<>>
    /\ ~data_is_none

\* a reload replaced the list by a processed list
C29_Replaced ==
    /\ pc = "idle"
    /\ load_status = "reloaded"
    /\ sanctions_df # <<>>

\* a response that reports no match and clears the name
ClearedWithoutMatch(response) ==
    /\ response.matches = <<>>
    /\ response.decision.action = "AUTO_CLEAR"

\* C30: once startup_event has run the global list is never None; a failed
\* startup installs the empty list, so no request is answered with status
\* 503 and every screening served after a failed load reports no match and
\* AUTO_CLEAR
C30_NeverNoneAfterStartup ==
    /\ pc # "boot" => ~data_is_none
    /\ pc # "unavailable"
    /\ load_status = "startup_failed" =>
           /\ sanctions_df = <<>>
           /\ pc \notin {"request_failed", "batch_failed"}
           /\ pc \in {"answered", "batch", "batch_done"} =>
                  \A i \in 1..Len(results) : ClearedWithoutMatch(results[i])

\* after a failed startup a name that is on the lists is cleared
C30_Witness ==
    /\ pc = "answered"
    /\ load_status = "startup_failed"
    /\ query = <<"O", "s", "a", "m", "a", " ", "b", "i", "n", " ", "L", "a", "d", "e", "n">>
    /\ ClearedWithoutMatch(results[1])

=============================================================================
